---- MODULE Spec2Model ----
(***************************************************************************)
(* A model of jebao_mqtt_bridge.py: the per-pump BLE session (JebaoPump),  *)
(* its codec, and the MQTT bridge that publishes its state (MQTTBridge).   *)
(*                                                                         *)
(* Every coroutine is cut at its await points: one action is the code that *)
(* runs between two awaits.  Library calls the code awaits (BleakClient    *)
(* connect / start_notify / write_gatt_char / disconnect) end with an      *)
(* outcome drawn from what the library can do: success or an exception.    *)
(* Bytes are naturals 0..255 and frames are sequences of bytes, indexed    *)
(* from 1 (Python offset k is index k+1).                                  *)
(***************************************************************************)
EXTENDS Integers, Sequences, FiniteSets, TLC

VARIABLES s, tk, ble, bridge, clock, timer, out

vars == <<s, tk, ble, bridge, clock, timer, out>>

----------------------------------------------------------------------------
(* Bounds of the model *)

\* width in bits of the serial counter's encoding (4 bytes = 32 in the code)
SerialBits == 2
\* polls of the handshake wait (range(50) in the code)
PollLimit == 2
\* control writes that may be awaiting the transport at once
MaxInFlight == 1
\* _send_login tasks that may be pending at once
MaxLoginTasks == 1
\* the connect() calls one reconnect loop makes while time is kept
MaxAttempts == 7
\* the hours the clock runs for while the runtime is kept
MaxHours == 1

----------------------------------------------------------------------------
(* Program constants *)

CMD_GET_PASSCODE == 6
CMD_LOGIN == 8
CMD_CONTROL == 147
CMD_PASSCODE_RESPONSE == 7
CMD_LOGIN_RESPONSE == 9
CMD_CONTROL_ACK == 148

ATTR_POWER == <<0, 0, 1>>
ATTR_FEED == <<0, 0, 4>>
ATTR_MODE == <<0, 16, 2>>
ATTR_FLOW == <<0, 128, 0>>
ATTR_FREQUENCY == <<1, 0, 0>>

\* a table in which two codes share a display name
ModesSharedName ==
  [c \in {0, 1, 2, 4, 6} |->
     CASE c = 0 -> "Classic Wave"
       [] c = 1 -> "Cross-flow"
       [] c = 2 -> "Sine Wave"
       [] c = 4 -> "Random"
       [] c = 6 -> "Random"]

MODES == [c \in {0, 1, 2, 4, 6} |->
            CASE c = 0 -> "Classic Wave"
              [] c = 1 -> "Cross-flow"
              [] c = 2 -> "Sine Wave"
              [] c = 4 -> "Random"
              [] c = 6 -> "Constant"]

\* {v: k for k, v in MODES.items()}
MODE_VALUES == [n \in {MODES[c] : c \in DOMAIN MODES} |->
                  CHOOSE c \in DOMAIN MODES : MODES[c] = n]

\* PumpConfig defaults
flow_min == 30
flow_max == 100
frequency_min == 5
frequency_max == 20

Pumps == {0, 1}

NoDate == ""

----------------------------------------------------------------------------
(* Codec *)

Max(a, b) == IF a >= b THEN a ELSE b
Min(a, b) == IF a <= b THEN a ELSE b

RECURSIVE Pow2(_)
Pow2(n) == IF n = 0 THEN 1 ELSE 2 * Pow2(n - 1)

\* int.to_bytes(k, 'big') of a value that fits
RECURSIVE ToBytes(_, _)
ToBytes(n, k) == IF k = 0 THEN <<>> ELSE Append(ToBytes(n \div 256, k - 1), n % 256)

\* int.from_bytes(b, 'big')
RECURSIVE FromBytes(_)
FromBytes(b) ==
  IF Len(b) = 0 THEN 0
  ELSE 256 * FromBytes(SubSeq(b, 1, Len(b) - 1)) + b[Len(b)]

\* a slice that starts one byte late
SliceLate(data, k) == IF Len(data) <= k + 1 THEN <<>> ELSE SubSeq(data, k + 2, Len(data))

\* data[k:] of Python (k is a 0-based offset)
Slice(data, k) == IF Len(data) <= k THEN <<>> ELSE SubSeq(data, k + 1, Len(data))

\* the serial counter no longer fits its encoding: to_bytes raises OverflowError
SerialOverflows(sn) == sn >= Pow2(SerialBits)

\* a frame whose command is written low byte first
MakePacketLittleEndian(cmd, payload) ==
  <<0, 0, 0, 3, 3 + Len(payload), 0>> \o <<cmd % 256, cmd \div 256>> \o payload

MakePacket(cmd, payload) ==
  <<0, 0, 0, 3, 3 + Len(payload), 0>> \o ToBytes(cmd, 2) \o payload

\* a P0 whose attribute triple is written one byte early
MakeWriteP0Shifted(attr, value) ==
  <<17, 0, 0, 0, 0, 0, attr[1], attr[2], attr[3], 0, value>>

MakeWriteP0(attr, value) ==
  <<17, 0, 0, 0, 0, 0, 0, attr[1], attr[2], attr[3], value>>

\* the control frame _send_command builds for serial sn
ControlFrame(sn, attr, value) ==
  MakePacket(CMD_CONTROL, ToBytes(sn, 4) \o MakeWriteP0(attr, value))

\* the serial a control frame carries (offsets 8..11)
FrameSerial(frame) == FromBytes(SubSeq(frame, 9, 12))

\* the command of a frame (offsets 6..7)
FrameCmd(frame) == FromBytes(SubSeq(frame, 7, 8))

----------------------------------------------------------------------------
(* Pump state and session *)

\* PumpState(): runtime_today is kept in seconds (hours * 3600)
InitState ==
  [power |-> FALSE, feed |-> FALSE, mode |-> 0, flow |-> 50, frequency |-> 8,
   connected |-> FALSE, power_on_time |-> 0, runtime_today |-> 0,
   last_runtime_reset |-> NoDate, state_initialized |-> FALSE]

\* JebaoPump.__init__: client is "None", or a BleakClient that is "Created"
\* (is_connected false) or "Connected" (is_connected true); reconnect_task is
\* "None" or the future's status
InitSession(index) ==
  [state |-> InitState, client |-> "None", passcode |-> <<>>, command_sn |-> 1,
   authenticated |-> FALSE, connect_lock |-> "free", reconnect_task |-> "None",
   running |-> TRUE, loop |-> FALSE, pump_index |-> index]

IsConnected(sess) == sess.client = "Connected"

\* _update_state: [sess, changed]
TrackRuntimeRestart(st, on, now) ==
  IF on THEN [st EXCEPT !.power_on_time = now]
  ELSE IF st.power_on_time > 0
    THEN [st EXCEPT !.runtime_today = now - st.power_on_time, !.power_on_time = 0]
    ELSE st

TrackRuntimeKeepsEpoch(st, on, now) ==
  IF on THEN [st EXCEPT !.power_on_time = now]
  ELSE IF st.power_on_time > 0
    THEN [st EXCEPT !.runtime_today = @ + (now - st.power_on_time)]
    ELSE st

\* the "Track runtime" branch of _update_state: the runtime is kept in seconds
TrackRuntime(st, on, now) ==
  IF on THEN [st EXCEPT !.power_on_time = now]
  ELSE IF st.power_on_time > 0
    THEN [st EXCEPT !.runtime_today = @ + (now - st.power_on_time),
                    !.power_on_time = 0]
    ELSE st

UpdateState(sess, type_byte, attr_hi, attr_lo, value, now) ==
  LET st == sess.state
      on == (value # 0)
      attr == <<type_byte, attr_hi, attr_lo>>
      st2 ==
        IF attr = ATTR_POWER /\ st.power # on
          THEN [TrackRuntime(st, on, now) EXCEPT !.power = on]
        ELSE IF attr = ATTR_FEED /\ st.feed # on
          THEN [st EXCEPT !.feed = on]
        ELSE IF attr = ATTR_MODE /\ st.mode # value
          THEN [st EXCEPT !.mode = value]
        ELSE IF attr = ATTR_FLOW /\ st.flow # value
          THEN [st EXCEPT !.flow = value]
        ELSE IF attr = ATTR_FREQUENCY /\ st.frequency # value
          THEN [st EXCEPT !.frequency = value]
        ELSE st
      changed == st2 # st
  IN [sess |-> IF changed
                 THEN [sess EXCEPT !.state = [st2 EXCEPT !.state_initialized = TRUE]]
                 ELSE sess,
      changed |-> changed]

\* a login_response branch that authenticates and leaves link_up as it was
LoginResponseLinkDown(sess, data) ==
  IF Len(data) > 8 /\ data[9] = 0
    THEN [sess |-> [sess EXCEPT !.authenticated = TRUE], changed |-> TRUE]
    ELSE [sess |-> sess, changed |-> FALSE]

\* the login_response branch of _notification_handler: [sess, changed]
LoginResponse(sess, data) ==
  IF Len(data) > 8 /\ data[9] = 0
    THEN [sess |-> [sess EXCEPT !.authenticated = TRUE, !.state.connected = TRUE],
          changed |-> TRUE]
    ELSE [sess |-> sess, changed |-> FALSE]

\* _notification_handler: the session after the notification, whether the
\* state callback was called, and whether a _send_login task was created
NotificationHandler(sess, data, now) ==
  IF Len(data) < 8
    THEN [sess |-> sess, changed |-> FALSE, login |-> FALSE]
  ELSE LET cmd == FrameCmd(data) IN
    IF cmd = CMD_PASSCODE_RESPONSE /\ Len(data) > 8
      THEN [sess |-> [sess EXCEPT !.passcode = Slice(data, 8)],
            changed |-> FALSE, login |-> TRUE]
    ELSE IF cmd = CMD_LOGIN_RESPONSE
      THEN LET r == LoginResponse(sess, data)
           IN [sess |-> r.sess, changed |-> r.changed, login |-> FALSE]
    ELSE IF cmd = CMD_CONTROL /\ Len(data) >= 19
      THEN LET p0 == Slice(data, 12) IN
           IF Len(p0) >= 11
             THEN LET r == UpdateState(sess, p0[8], p0[9], p0[10], p0[11], now)
                  IN [sess |-> r.sess, changed |-> r.changed, login |-> FALSE]
             ELSE [sess |-> sess, changed |-> FALSE, login |-> FALSE]
    ELSE [sess |-> sess, changed |-> FALSE, login |-> FALSE]

----------------------------------------------------------------------------
(* Publishing *)

OnOff(b) == IF b THEN "ON" ELSE "OFF"

\* MODES.get(mode, "Unknown")
ModeName(mode) == IF mode \in DOMAIN MODES THEN MODES[mode] ELSE "Unknown"

\* f"{runtime:.2f}" for a runtime in seconds: hundredths of an hour
RuntimePayload(seconds) == (seconds * 100 + 1800) \div 3600

\* the state topics _publish_state publishes after the connected topic
StateTopics(st, now) ==
  LET runtime == IF st.power /\ st.power_on_time > 0
                   THEN st.runtime_today + (now - st.power_on_time)
                   ELSE st.runtime_today
  IN {<<"power/state", OnOff(st.power)>>,
      <<"feed/state", OnOff(st.feed)>>,
      <<"flow/state", st.flow>>,
      <<"frequency/state", st.frequency>>,
      <<"mode/state", ModeName(st.mode)>>,
      <<"runtime/state", RuntimePayload(runtime)>>}

\* a gate that is always open
PublishGateOpen(st) == TRUE

\* the "state_initialized" gate of _publish_state
PublishGate(st) == st.state_initialized

DailyResetKeepsRuntime(st, today) ==
  IF st.last_runtime_reset # today
    THEN [st EXCEPT !.last_runtime_reset = today]
    ELSE st

\* the "Reset runtime daily" step of _publish_state
DailyReset(st, today) ==
  IF st.last_runtime_reset # today
    THEN [st EXCEPT !.runtime_today = 0, !.last_runtime_reset = today]
    ELSE st

\* _publish_state: the session after it (the daily reset) and what was published
PublishState(sess, br, clk) ==
  IF ~br.mqtt_connected
    THEN [sess |-> sess, pub |-> {}]
  ELSE IF ~PublishGate(sess.state)
    THEN [sess |-> sess, pub |-> {<<"connected/state", OnOff(sess.state.connected)>>}]
  ELSE LET st == DailyReset(sess.state, clk.today)
       IN [sess |-> [sess EXCEPT !.state = st],
           pub |-> {<<"connected/state", OnOff(st.connected)>>}
                     \cup StateTopics(st, clk.now)]

----------------------------------------------------------------------------
(* One pump's step: L holds the pump's session (s), its coroutines (tk) and *)
(* its BLE transport (ble) while a handler runs, with what the handler      *)
(* emitted: ev state-callback calls, pub the topics published, fr the frame *)
(* handed to write_gatt_char.                                               *)

\* coroutines of a session: pc of the connect() task bridge.start creates
\* ("startup") and of the _reconnect_loop task ("reconnect"), the polls the
\* connect() in progress has slept, pending _send_login tasks, and the pc of
\* disconnect()
InitTasks ==
  [pc |-> [startup |-> "pending", reconnect |-> "none"],
   polls |-> 0, logins |-> 0, stop |-> "idle"]

\* transport of a session: whether the current client has notifications on,
\* a BleakClient the session no longer holds that is still connected ("quiet",
\* or "notify" when its notifications are on), the control writes awaited,
\* the serial of the last control frame handed to it (-1 before the first),
\* and whether a passcode_response with a passcode came over the link of the
\* current client
InitBle ==
  [notify |-> FALSE, stale |-> "none", writes |-> <<>>, last |-> -1,
   heard |-> FALSE]

\* the timing of a session's _reconnect_loop, in milliseconds: its delay (0
\* while no loop has started), the time its sleep ends, the time the loop
\* started, its attempts (the connect() calls of the loop) and the time of the
\* first of them (-1 before it)
InitTimer == [delay |-> 0, wake |-> 0, started |-> 0, attempts |-> 0, first |-> -1]

\* a step in which no time is kept: the sleeps of the session end at any time
Untimed(A) == A /\ UNCHANGED timer

Begin(p) == [s |-> s[p], tk |-> tk[p], ble |-> ble[p], ev |-> 0, pub |-> {}, fr |-> <<>>]

\* a state callback that is never called
EmitNothing(L) == L

\* self.state_callback(self)
Emit(L) ==
  LET r == PublishState(L.s, bridge, clock)
  IN [L EXCEPT !.s = r.sess, !.ev = @ + 1, !.pub = @ \cup r.pub]

\* the reconnect-loop task ends: the future is done
FinishReconnect(L) ==
  [L EXCEPT !.tk.pc.reconnect = "done", !.s.reconnect_task = "Done"]

\* "while not self.authenticated": the loop ends, or sleeps for the delay
ReconnectLoopHead(L) ==
  IF L.s.authenticated THEN FinishReconnect(L)
  ELSE [L EXCEPT !.tk.pc.reconnect = "sleep"]

\* connect() of task t returns: the lock is released; the startup task ends,
\* the reconnect loop breaks on success and goes round on failure
Return(L, t, result) ==
  LET L1 == [L EXCEPT !.s.connect_lock = "free"] IN
  IF t = "startup" THEN [L1 EXCEPT !.tk.pc.startup = "done"]
  ELSE IF result THEN FinishReconnect(L1)
  ELSE ReconnectLoopHead(L1)

\* the assignments _cleanup_connection and _on_disconnect start with
ResetLink(sess) ==
  [sess EXCEPT !.authenticated = FALSE, !.state.connected = FALSE]

\* a hook that schedules a reconnect loop whatever the task it holds
OnDisconnectUnguarded(L) ==
  LET L1 == [L EXCEPT !.s = [ResetLink(L.s) EXCEPT !.state.state_initialized = FALSE]]
      L2 == Emit(L1)
  IN IF L2.s.loop
       THEN [L2 EXCEPT !.s.reconnect_task = "Running", !.tk.pc.reconnect = "start"]
       ELSE L2

\* _on_disconnect
OnDisconnect(L) ==
  LET L1 == [L EXCEPT !.s = [ResetLink(L.s) EXCEPT !.state.state_initialized = FALSE]]
      L2 == Emit(L1)
  IN IF L2.s.loop /\ L2.s.reconnect_task \in {"None", "Done", "Cancelled"}
       THEN [L2 EXCEPT !.s.reconnect_task = "Running", !.tk.pc.reconnect = "start"]
       ELSE L2

\* BleakClient.disconnect() of the session's client ends: the link goes down
\* and the disconnect hook runs before it returns ("ok"), or it raises and the
\* link stays as it was ("raise").  Then self.client = None.
ClientDisconnected(L, outcome) ==
  LET L1 == IF L.s.client # "Connected" THEN L
            ELSE IF outcome = "ok" THEN OnDisconnect(L)
            ELSE [L EXCEPT !.ble.stale =
                    IF L.ble.notify \/ @ = "notify" THEN "notify" ELSE "quiet"]
  IN [L1 EXCEPT !.s.client = "None", !.ble.notify = FALSE]

\* _cleanup_connection up to its await: the session, and whether it awaits
\* client.disconnect() (a client that is not connected returns at once)
CleanupStart(L) ==
  LET L1 == [L EXCEPT !.s = ResetLink(L.s)] IN
  IF L1.s.client = "Connected" THEN [L |-> L1, waits |-> TRUE]
  ELSE [L |-> [L1 EXCEPT !.s.client = "None", !.ble.notify = FALSE], waits |-> FALSE]

\* connect() of task t fails: _cleanup_connection, then return False
Fail(L, t) ==
  LET c == CleanupStart(L) IN
  IF c.waits THEN [c.L EXCEPT !.tk.pc[t] = "cleanup"]
  ELSE Return(c.L, t, FALSE)

\* connect() of task t from the lock on, up to its first await
ConnectBody(L, t, created) ==
  LET L1 == [L EXCEPT !.s.connect_lock = t] IN
  IF IsConnected(L.s) THEN Return(L1, t, TRUE)
  ELSE LET L2 == [L1 EXCEPT !.s.loop = TRUE] IN
       IF created
         THEN [L2 EXCEPT !.s.client = "Created", !.ble.notify = FALSE,
                         !.ble.heard = FALSE, !.tk.pc[t] = "connecting"]
         ELSE Fail(L2, t)

\* the frame of _send_command goes to write_gatt_char; step is what the
\* serial counter is advanced by before the write is awaited
Submit(L, attr, value, step) ==
  LET frame == ControlFrame(L.s.command_sn, attr, value)
  IN [L |-> [L EXCEPT !.s.command_sn = @ + step,
                      !.ble.writes = Append(@, frame),
                      !.ble.last = FrameSerial(frame),
                      !.fr = frame],
      ret |-> "none"]

\* a _send_command that only asks whether the session is authenticated
SendCommandUnlinked(L, attr, value) ==
  IF ~L.s.authenticated THEN [L |-> L, ret |-> "False"]
  ELSE IF SerialOverflows(L.s.command_sn) THEN [L |-> L, ret |-> "raise"]
  ELSE Submit(L, attr, value, 1)

\* a _send_command that leaves the serial counter to the end of the write
SendCommandSameSerial(L, attr, value) ==
  IF ~L.s.authenticated \/ L.s.client = "None" \/ ~IsConnected(L.s)
    THEN [L |-> L, ret |-> "False"]
  ELSE IF SerialOverflows(L.s.command_sn) THEN [L |-> L, ret |-> "raise"]
  ELSE Submit(L, attr, value, 0)

\* _send_command up to its await: the session, the value returned when it
\* returns at once ("none" when the write is awaited, "raise" when to_bytes
\* raises OverflowError)
SendCommand(L, attr, value) ==
  IF ~L.s.authenticated \/ L.s.client = "None" \/ ~IsConnected(L.s)
    THEN [L |-> L, ret |-> "False"]
  ELSE IF SerialOverflows(L.s.command_sn) THEN [L |-> L, ret |-> "raise"]
  ELSE Submit(L, attr, value, 1)

\* a clamp with no upper limit
ClampBelow(lo, hi, v) == Max(lo, v)

\* the clamp of set_flow and set_frequency
Clamp(lo, hi, v) == Max(lo, Min(hi, v))

\* set_mode
SetModeBody(L, mode) ==
  IF mode \in DOMAIN MODES THEN SendCommand(L, ATTR_MODE, mode)
  ELSE [L |-> L, ret |-> "False"]

\* set_mode_by_name
SetModeByNameBody(L, name) ==
  IF name \in DOMAIN MODE_VALUES THEN SetModeBody(L, MODE_VALUES[name])
  ELSE [L |-> L, ret |-> "False"]

----------------------------------------------------------------------------
(* Inputs *)

\* notifications the device sends: a control notification carries a 4-byte
\* serial and then the P0
ControlNotification(attr, value) ==
  MakePacket(CMD_CONTROL, <<0, 0, 0, 0>> \o MakeWriteP0(attr, value))

PasscodeFrame == MakePacket(CMD_PASSCODE_RESPONSE, <<170, 187>>)
LoginOkFrame == MakePacket(CMD_LOGIN_RESPONSE, <<0>>)
LoginRejectedFrame == MakePacket(CMD_LOGIN_RESPONSE, <<1>>)
AckFrame == MakePacket(CMD_CONTROL_ACK, <<>>)
ShortFrame == <<0, 0, 0, 3, 0>>

\* the notifications of the session specification
Notifications ==
  {PasscodeFrame, LoginOkFrame, LoginRejectedFrame, AckFrame, ShortFrame,
   ControlNotification(ATTR_POWER, 1)}

\* a control notification of 21 bytes: a 4-byte serial and a P0 of 9 bytes
\* that ends with the mode attribute and the value 4
ShortControlFrame ==
  <<0, 0, 0, 3, 16, 0, 0, 147, 0, 0, 0, 0, 17, 0, 0, 0, 0, 0, 16, 2, 4>>

\* a control notification of 19 bytes
MinimalControlFrame == MakePacket(CMD_CONTROL, <<0, 0, 0, 0, 17, 0, 0, 0, 0, 0, 1>>)

\* the notifications of the update specification: every attribute, values
\* equal to the defaults, outside the configured limits and outside MODES,
\* an attribute the code does not know, and control frames too short to hold
\* a P0 of 11 bytes
UpdateNotifications ==
  {LoginOkFrame, ShortFrame, ShortControlFrame, MinimalControlFrame,
   ControlNotification(ATTR_POWER, 1), ControlNotification(ATTR_POWER, 0),
   ControlNotification(ATTR_FEED, 1),
   ControlNotification(ATTR_MODE, 4), ControlNotification(ATTR_MODE, 9),
   ControlNotification(ATTR_FLOW, 50), ControlNotification(ATTR_FLOW, 200),
   ControlNotification(ATTR_FREQUENCY, 2),
   ControlNotification(<<2, 0, 0>>, 1)}

\* passcode responses: a second passcode, and one that carries none
OtherPasscodeFrame == MakePacket(CMD_PASSCODE_RESPONSE, <<204>>)
EmptyPasscodeFrame == MakePacket(CMD_PASSCODE_RESPONSE, <<>>)

\* the notifications of the login specification
LoginNotifications ==
  {PasscodeFrame, OtherPasscodeFrame, EmptyPasscodeFrame, LoginOkFrame}

\* the notifications of the command specification
CommandNotifications == {LoginOkFrame, ControlNotification(ATTR_FLOW, 60)}

FlowInputs == {flow_min - 1, flow_min, 65, flow_max, flow_max + 1}
FrequencyInputs == {frequency_min - 1, 12, frequency_max + 1}
ModeInputs == {0, 3, 4}
ModeNameInputs == {"Random", "Invalid"}
Outcomes == {"ok", "raise"}

----------------------------------------------------------------------------
(* Actions *)

\* what a step did: the handler (op), the pump, its input (arg: the frame
\* received or the value passed, <<>> when there is none), what it returned
\* (ret), the state-callback calls, the topics published and the frame written
Output(op, p, arg, ret, events, pub, frame) ==
  [op |-> op, pump |-> p, arg |-> arg, ret |-> ret, events |-> events,
   pub |-> pub, frame |-> frame]

\* a commit that copies the authentication flag of pump p to every session
CommitArgShared(p, L, op, arg, ret) ==
  /\ s' = [q \in Pumps |->
            IF q = p THEN L.s ELSE [s[q] EXCEPT !.authenticated = L.s.authenticated]]
  /\ tk' = [tk EXCEPT ![p] = L.tk]
  /\ ble' = [ble EXCEPT ![p] = L.ble]
  /\ out' = Output(op, p, arg, ret, L.ev, {<<p, x[1], x[2]>> : x \in L.pub}, L.fr)
  /\ UNCHANGED <<bridge, clock>>

\* the step of pump p ends in L
CommitArg(p, L, op, arg, ret) ==
  /\ s' = [s EXCEPT ![p] = L.s]
  /\ tk' = [tk EXCEPT ![p] = L.tk]
  /\ ble' = [ble EXCEPT ![p] = L.ble]
  /\ out' = Output(op, p, arg, ret, L.ev, {<<p, x[1], x[2]>> : x \in L.pub}, L.fr)
  /\ UNCHANGED <<bridge, clock>>

Commit(p, L, op, ret) == CommitArg(p, L, op, <<>>, ret)

\* connect() of task t fails in its step
CommitFail(p, L, t, op) ==
  LET L2 == Fail(L, t)
  IN Commit(p, L2, op, IF L2.tk.pc[t] = "cleanup" THEN "none" ELSE "False")

\* connect() of task t ran from the lock to its first await, or returned
CommitConnect(p, L, t) ==
  Commit(p, L, "connect",
         IF L.tk.pc[t] \in {"connecting", "cleanup"} THEN "none"
         ELSE IF IsConnected(L.s) THEN "True" ELSE "False")

\* MQTTBridge.start: asyncio.create_task(pump.connect())
Kickoff(p) ==
  /\ tk[p].pc.startup = "pending"
  /\ Commit(p, [Begin(p) EXCEPT !.tk.pc.startup = "lock"], "kickoff", "none")

\* connect(): the startup task takes the lock
ConnectEnter(p) ==
  /\ tk[p].pc.startup = "lock"
  /\ s[p].connect_lock = "free"
  /\ \E created \in BOOLEAN :
       CommitConnect(p, ConnectBody(Begin(p), "startup", created), "startup")

\* connect(): the reconnect loop's connect() takes the lock it waited for
ReconnectEnter(p) ==
  /\ tk[p].pc.reconnect = "lock"
  /\ s[p].connect_lock = "free"
  /\ \E created \in BOOLEAN :
       CommitConnect(p, ConnectBody(Begin(p), "reconnect", created), "reconnect")

\* connect(): "await self.client.connect()" ends
Connected(p, t) ==
  /\ tk[p].pc[t] = "connecting"
  /\ \E outcome \in Outcomes :
       LET L == Begin(p) IN
       IF outcome = "raise" THEN CommitFail(p, L, t, "connect")
       ELSE IF L.s.client = "None"
         \* disconnect() dropped the client meanwhile: it connects unheld, and
         \* self.client.start_notify raises AttributeError
         THEN CommitFail(p, [L EXCEPT !.ble.stale =
                                    IF @ = "notify" THEN @ ELSE "quiet"],
                         t, "connect")
         ELSE Commit(p, [L EXCEPT !.s.client = "Connected",
                                  !.tk.pc[t] = "subscribing"],
                     "connect", "none")

\* connect(): start_notify ends; the get_passcode frame is written
Subscribed(p, t) ==
  /\ tk[p].pc[t] = "subscribing"
  /\ \E outcome \in Outcomes :
       LET L == Begin(p) IN
       IF outcome = "ok" /\ IsConnected(L.s)
         THEN Commit(p, [L EXCEPT !.ble.notify = TRUE,
                                  !.fr = MakePacket(CMD_GET_PASSCODE, <<>>),
                                  !.tk.pc[t] = "writing"],
                     "connect", "none")
         ELSE CommitFail(p, L, t, "connect")

\* connect(): the get_passcode write ends; the first poll
PasscodeWritten(p, t) ==
  /\ tk[p].pc[t] = "writing"
  /\ \E outcome \in Outcomes :
       LET L == Begin(p) IN
       IF outcome = "ok" /\ IsConnected(L.s)
         THEN IF L.s.authenticated
                THEN Commit(p, Return(L, t, TRUE), "connect", "True")
                ELSE Commit(p, [L EXCEPT !.tk.polls = 0, !.tk.pc[t] = "polling"],
                            "connect", "none")
         ELSE CommitFail(p, L, t, "connect")

\* connect(): a poll sleep ends; after the last one the handshake timed out
Poll(p, t) ==
  /\ tk[p].pc[t] = "polling"
  /\ LET L == Begin(p)
         k == L.tk.polls + 1
     IN IF k >= PollLimit THEN CommitFail(p, L, t, "connect_timeout")
        ELSE IF L.s.authenticated
          THEN Commit(p, Return(L, t, TRUE), "connect", "True")
          ELSE Commit(p, [L EXCEPT !.tk.polls = k], "connect", "none")

\* connect(): the client.disconnect() of _cleanup_connection ends
CleanedUp(p, t) ==
  /\ tk[p].pc[t] = "cleanup"
  /\ \E outcome \in Outcomes :
       Commit(p, Return(ClientDisconnected(Begin(p), outcome), t, FALSE),
              "cleanup", "False")

\* the link of the session's client goes down: bleak calls _on_disconnect
LinkLost(p) ==
  /\ s[p].client = "Connected"
  /\ Commit(p, OnDisconnect([Begin(p) EXCEPT !.s.client = "Created",
                                             !.ble.notify = FALSE]),
            "on_disconnect", "none")

\* the link of a client the session no longer holds goes down
StaleLinkLost(p) ==
  /\ ble[p].stale # "none"
  /\ Commit(p, OnDisconnect([Begin(p) EXCEPT !.ble.stale = "none"]),
            "on_disconnect", "none")

\* a notification arrives over the link of the session's client or over the
\* link of a client it no longer holds: _notification_handler
NotifyFrom(p, frames) ==
  \E link \in {"client", "stale"} :
    /\ link = "client" => ble[p].notify /\ s[p].client = "Connected"
    /\ link = "stale" => ble[p].stale = "notify"
    /\ \E data \in frames :
         LET L == Begin(p)
             r == NotificationHandler(L.s, data, clock.now)
             L1 == [L EXCEPT !.s = r.sess,
                             !.ble.heard = @ \/ (r.login /\ link = "client")]
             L2 == IF r.changed THEN Emit(L1) ELSE L1
         IN /\ r.login => L.tk.logins < MaxLoginTasks
            /\ CommitArg(p, IF r.login THEN [L2 EXCEPT !.tk.logins = @ + 1] ELSE L2,
                         "notification", data, "none")

Notify(p) == NotifyFrom(p, Notifications)

\* _send_login
SendLogin(p) ==
  /\ tk[p].logins > 0
  /\ LET L == [Begin(p) EXCEPT !.tk.logins = @ - 1] IN
     IF L.s.client # "None" /\ IsConnected(L.s)
       THEN Commit(p, [L EXCEPT !.fr = MakePacket(CMD_LOGIN, L.s.passcode)],
                   "send_login", "none")
       ELSE Commit(p, L, "send_login", "none")

ReconnectStartUnstaggered(p) ==
  /\ tk[p].pc.reconnect = "start"
  /\ Commit(p, ReconnectLoopHead(Begin(p)), "reconnect", "none")

\* _reconnect_loop starts: the stagger sleep of a pump whose index is not 0
ReconnectStart(p) ==
  /\ tk[p].pc.reconnect = "start"
  /\ LET L == Begin(p) IN
     IF L.s.pump_index * 2 > 0
       THEN Commit(p, [L EXCEPT !.tk.pc.reconnect = "stagger"], "reconnect", "none")
       ELSE Commit(p, ReconnectLoopHead(L), "reconnect", "none")

\* _reconnect_loop: the stagger sleep ends
ReconnectStaggered(p) ==
  /\ tk[p].pc.reconnect = "stagger"
  /\ Commit(p, ReconnectLoopHead(Begin(p)), "reconnect", "none")

\* a loop that calls connect() after its sleep without a look at _running
ReconnectWakeUnchecked(p) ==
  /\ tk[p].pc.reconnect = "sleep"
  /\ LET L == Begin(p) IN
     IF L.s.connect_lock # "free"
       THEN Commit(p, [L EXCEPT !.tk.pc.reconnect = "lock"], "reconnect", "none")
       ELSE \E created \in BOOLEAN :
              CommitConnect(p, ConnectBody(L, "reconnect", created), "reconnect")

\* _reconnect_loop: the delay sleep ends; _running is checked and connect()
\* is called, which runs on when the lock is free
ReconnectWake(p) ==
  /\ tk[p].pc.reconnect = "sleep"
  /\ LET L == Begin(p) IN
     IF ~L.s.running THEN Commit(p, FinishReconnect(L), "reconnect", "none")
     ELSE IF L.s.connect_lock # "free"
       THEN Commit(p, [L EXCEPT !.tk.pc.reconnect = "lock"], "reconnect", "none")
       ELSE \E created \in BOOLEAN :
              CommitConnect(p, ConnectBody(L, "reconnect", created), "reconnect")

\* disconnect() up to the await of _cleanup_connection: the reconnect task is
\* cancelled (a connect() it was in gives the lock back)
DisconnectBody(L) ==
  LET L1 == [L EXCEPT !.s.running = FALSE]
      L2 == IF L1.s.reconnect_task = "Running"
              THEN [L1 EXCEPT !.s.reconnect_task = "Cancelled",
                              !.tk.pc.reconnect = "done",
                              !.s.connect_lock =
                                 IF @ = "reconnect" THEN "free" ELSE @]
              ELSE L1
      c == CleanupStart(L2)
  IN [c.L EXCEPT !.tk.stop = IF c.waits THEN "cleanup" ELSE "done"]

Disconnect(p) ==
  /\ tk[p].stop = "idle"
  /\ LET L == DisconnectBody(Begin(p)) IN
     Commit(p, L, "disconnect", IF L.tk.stop = "done" THEN "done" ELSE "none")

\* disconnect(): the client.disconnect() of _cleanup_connection ends
Disconnected(p) ==
  /\ tk[p].stop = "cleanup"
  /\ \E outcome \in Outcomes :
       Commit(p, [ClientDisconnected(Begin(p), outcome) EXCEPT !.tk.stop = "done"],
              "disconnect", "done")

\* a command call: r is the body's result
Command(p, op, arg, r) ==
  /\ r.ret = "none" => Len(ble[p].writes) < MaxInFlight
  /\ CommitArg(p, r.L, op, arg, r.ret)

SetPower(p) ==
  \E on \in BOOLEAN :
    Command(p, "set_power", on, SendCommand(Begin(p), ATTR_POWER, IF on THEN 1 ELSE 0))

SetFeed(p) ==
  \E on \in BOOLEAN :
    Command(p, "set_feed", on, SendCommand(Begin(p), ATTR_FEED, IF on THEN 1 ELSE 0))

SetFlow(p) ==
  \E percent \in FlowInputs :
    Command(p, "set_flow", percent,
            SendCommand(Begin(p), ATTR_FLOW, Clamp(flow_min, flow_max, percent)))

SetFrequency(p) ==
  \E seconds \in FrequencyInputs :
    Command(p, "set_frequency", seconds,
            SendCommand(Begin(p), ATTR_FREQUENCY,
                        Clamp(frequency_min, frequency_max, seconds)))

SetMode(p) ==
  \E mode \in ModeInputs : Command(p, "set_mode", mode, SetModeBody(Begin(p), mode))

SetModeByName(p) ==
  \E name \in ModeNameInputs :
    Command(p, "set_mode_by_name", name, SetModeByNameBody(Begin(p), name))

\* a write whose success is taken for the device's echo of a flow command
CommandDoneEcho(p) ==
  /\ ble[p].writes # <<>>
  /\ \E outcome \in Outcomes :
       LET L == Begin(p)
           frame == Head(L.ble.writes)
           echo == outcome = "ok" /\ SubSeq(frame, 20, 22) = ATTR_FLOW
       IN Commit(p, [L EXCEPT !.ble.writes = Tail(@), !.fr = frame,
                              !.s.state.flow = IF echo THEN frame[23] ELSE @],
                 "command_done", IF outcome = "ok" THEN "True" ELSE "False")

\* _send_command: the awaited write ends; BleakError is caught
CommandDone(p) ==
  /\ ble[p].writes # <<>>
  /\ \E outcome \in Outcomes :
       LET L == Begin(p) IN
       Commit(p, [L EXCEPT !.ble.writes = Tail(@), !.fr = Head(L.ble.writes)],
              "command_done", IF outcome = "ok" THEN "True" ELSE "False")

----------------------------------------------------------------------------
(* The bridge *)

\* the bridge once MQTTBridge.start has started the broker client and created
\* the pumps: whether the broker connection is up, the command topics
\* subscribed, the keys of self.pumps, and whether loop_start() was called
StartedBridge ==
  [mqtt_connected |-> FALSE, subs |-> {}, pumps |-> Pumps, started |-> TRUE]

CommandTopics(p) ==
  {<<p, e>> : e \in {"power", "feed", "flow", "frequency", "mode"}}

\* _publish_state for every pump of ps, in one run of the caller
PublishAll(ps, br, op) ==
  LET r == [p \in Pumps |-> IF p \in ps THEN PublishState(s[p], br, clock)
                            ELSE [sess |-> s[p], pub |-> {}]]
  IN /\ s' = [p \in Pumps |-> r[p].sess]
     /\ out' = Output(op, -1, <<>>, "none", 0,
                       UNION {{<<p, x[1], x[2]>> : x \in r[p].pub} : p \in Pumps},
                       <<>>)

\* _on_mqtt_connect with rc == 0
MqttConnected ==
  /\ bridge.started
  /\ ~bridge.mqtt_connected
  /\ bridge' = [bridge EXCEPT !.mqtt_connected = TRUE,
                              !.subs = @ \cup UNION {CommandTopics(p) : p \in bridge.pumps}]
  /\ PublishAll(bridge.pumps, bridge', "mqtt_connect")
  /\ UNCHANGED <<tk, ble, clock>>

\* the broker connection is lost: mqtt_client.is_connected() is false
MqttLost ==
  /\ bridge.mqtt_connected
  /\ bridge' = [bridge EXCEPT !.mqtt_connected = FALSE]
  /\ out' = Output("mqtt_lost", -1, <<>>, "none", 0, {}, <<>>)
  /\ UNCHANGED <<s, tk, ble, clock>>

\* _periodic_state_publisher: one round
PeriodicPublish ==
  /\ \E p \in Pumps : s[p].state.connected
  /\ PublishAll({p \in Pumps : s[p].state.connected}, bridge, "periodic")
  /\ UNCHANGED <<tk, ble, bridge, clock>>

----------------------------------------------------------------------------
(* Specification: the session of one pump and the bridge *)

Today == "2026-01-01"

Init ==
  /\ s = [p \in Pumps |-> InitSession(p)]
  /\ tk = [p \in Pumps |-> InitTasks]
  /\ ble = [p \in Pumps |-> InitBle]
  /\ bridge = StartedBridge
  /\ clock = [now |-> 1, today |-> Today]
  /\ timer = [p \in Pumps |-> InitTimer]
  /\ out = Output("init", -1, <<>>, "none", 0, {}, <<>>)

Tasks == {"startup", "reconnect"}

SessionNext(p) ==
  \/ Untimed(Kickoff(p))
  \/ Untimed(ConnectEnter(p))
  \/ Untimed(ReconnectEnter(p))
  \/ Untimed(\E t \in Tasks : Connected(p, t))
  \/ Untimed(\E t \in Tasks : Subscribed(p, t))
  \/ Untimed(\E t \in Tasks : PasscodeWritten(p, t))
  \/ Untimed(\E t \in Tasks : Poll(p, t))
  \/ Untimed(\E t \in Tasks : CleanedUp(p, t))
  \/ Untimed(LinkLost(p))
  \/ Untimed(StaleLinkLost(p))
  \/ Untimed(Notify(p))
  \/ Untimed(SendLogin(p))
  \/ Untimed(ReconnectStart(p))
  \/ Untimed(ReconnectStaggered(p))
  \/ Untimed(ReconnectWake(p))
  \/ Untimed(Disconnect(p))
  \/ Untimed(Disconnected(p))

Next ==
  \/ \E p \in {1} : SessionNext(p)
  \/ Untimed(MqttConnected)
  \/ Untimed(MqttLost)
  \/ Untimed(PeriodicPublish)

Spec == Init /\ [][Next]_vars

----------------------------------------------------------------------------
(* Specification of the command path: a session that Spec has brought to   *)
(* its handshake, the commands called on it, the ends of their writes, the *)
(* notifications of its device and the loss of its link                    *)

\* connect() of the startup task polls for the login: the link is connected
\* and subscribed, the session is not authenticated yet
Handshaking ==
  [s |-> [InitSession(1) EXCEPT !.client = "Connected", !.loop = TRUE,
                                !.connect_lock = "startup"],
   tk |-> [InitTasks EXCEPT !.pc.startup = "polling"],
   ble |-> [InitBle EXCEPT !.notify = TRUE]]

\* connect() failed after the subscription and the client.disconnect() of its
\* cleanup raised: the session holds no client, the link is still up, and the
\* login_response that came over it authenticated the session
Abandoned ==
  [s |-> [InitSession(1) EXCEPT !.authenticated = TRUE, !.loop = TRUE,
                                !.state.connected = TRUE],
   tk |-> [InitTasks EXCEPT !.pc.startup = "done"],
   ble |-> [InitBle EXCEPT !.stale = "notify"]]

CommandStarts == {Handshaking, Abandoned}

\* the session of pump 1 is as start says and the broker is connected
StartedAs(start) ==
  /\ s[1] = start.s
  /\ tk[1] = start.tk
  /\ ble[1] = start.ble
  /\ bridge.mqtt_connected

InitCmd ==
  /\ \E start \in CommandStarts :
       /\ s = [p \in Pumps |-> IF p = 1 THEN start.s ELSE InitSession(p)]
       /\ tk = [p \in Pumps |-> IF p = 1 THEN start.tk ELSE InitTasks]
       /\ ble = [p \in Pumps |-> IF p = 1 THEN start.ble ELSE InitBle]
  /\ bridge = [StartedBridge EXCEPT
                 !.mqtt_connected = TRUE,
                 !.subs = UNION {CommandTopics(p) : p \in Pumps}]
  /\ clock = [now |-> 1, today |-> Today]
  /\ timer = [p \in Pumps |-> InitTimer]
  /\ out = Output("init", -1, <<>>, "none", 0, {}, <<>>)

CommandNext(p) ==
  \/ Untimed(SetPower(p))
  \/ Untimed(SetFeed(p))
  \/ Untimed(SetFlow(p))
  \/ Untimed(SetFrequency(p))
  \/ Untimed(SetMode(p))
  \/ Untimed(SetModeByName(p))
  \/ Untimed(CommandDone(p))
  \/ Untimed(NotifyFrom(p, CommandNotifications))
  \/ Untimed(LinkLost(p))
  \/ Untimed(StaleLinkLost(p))

NextCmd == \E p \in {1} : CommandNext(p)

SpecCmd == InitCmd /\ [][NextCmd]_vars

----------------------------------------------------------------------------
(* Claims about the session's lifecycle, checked under Spec *)

\* a connect() of the session is waiting for the handshake
Connecting(p) == \E t \in Tasks : tk[p].pc[t] \in {"writing", "polling"}

\* the step just taken handled a login_response whose status byte is zero
LoginAccepted ==
  /\ out.op = "notification"
  /\ Len(out.arg) > 8
  /\ FrameCmd(out.arg) = CMD_LOGIN_RESPONSE
  /\ out.arg[9] = 0

\* C2: when a connecting session has just handled a login_response with status
\* zero, it is authenticated and link_up, the state callback was called exactly
\* once, and what that call published (the broker being connected) carries
\* connected/state = "ON"
C2_LoginSuccess ==
  (LoginAccepted /\ Connecting(out.pump)) =>
    /\ s[out.pump].authenticated
    /\ s[out.pump].state.connected
    /\ out.events = 1
    /\ (bridge.mqtt_connected => <<out.pump, "connected/state", "ON">> \in out.pub)
    /\ \A x \in out.pub : x[2] = "connected/state" => x[3] = "ON"

C2_Witness ==
  /\ LoginAccepted
  /\ Connecting(out.pump)
  /\ s[out.pump].state.connected
  /\ out.events = 1
  /\ <<out.pump, "connected/state", "ON">> \in out.pub

\* C3: link_up implies that the session is authenticated and that its GATT
\* link is connected
C3_LinkUpImpliesAuthenticatedLink ==
  \A p \in Pumps :
    s[p].state.connected => s[p].authenticated /\ s[p].client = "Connected"

\* the step just taken ended a disconnect of the session: the disconnect hook,
\* the cleanup of a failed connect(), or disconnect()
DisconnectEnded ==
  \/ out.op = "on_disconnect"
  \/ out.op \in {"connect", "connect_timeout", "cleanup"} /\ out.ret = "False"
  \/ out.op = "disconnect" /\ out.ret = "done"

\* C4: after any disconnect of a session link_up, state_seen and authenticated
\* are false
C4_DisconnectResets ==
  DisconnectEnded =>
    /\ ~s[out.pump].state.connected
    /\ ~s[out.pump].state.state_initialized
    /\ ~s[out.pump].authenticated

\* C5: whatever a step publishes for a pump whose state_seen is false is the
\* connected/state topic only
C5_NoPrematurePublish ==
  \A x \in out.pub :
    x[2] # "connected/state" => s[x[1]].state.state_initialized

C5_Witness ==
  /\ \E p \in Pumps : out.pub = {<<p, "connected/state", "ON">>}
                      /\ ~s[p].state.state_initialized
  /\ out.op \in {"periodic", "mqtt_connect", "notification"}

----------------------------------------------------------------------------
(* Claims about the command path, checked under SpecCmd *)

CommandOps ==
  {"set_power", "set_feed", "set_flow", "set_frequency", "set_mode",
   "set_mode_by_name"}

\* the session may send: it is authenticated and its GATT link is connected
Ready(p) == s[p].authenticated /\ s[p].client = "Connected"

\* the step is a command call on pump p
Called(p) == out'.op \in CommandOps /\ out'.pump = p

\* C1: a command called while the session is not authenticated, or while its
\* GATT link is not connected, returns failure, writes no frame, and leaves
\* the serial counter, the pump state and the transport as they were
C1_RejectedWithoutEffect ==
  [][\A p \in Pumps :
       (Called(p) /\ ~Ready(p)) =>
         /\ out'.ret = "False"
         /\ out'.frame = <<>>
         /\ s'[p] = s[p]
         /\ ble'[p] = ble[p]]_vars

C1_Witness ==
  /\ out.op = "set_power"
  /\ out.ret = "False"
  /\ out.frame = <<>>
  /\ s[out.pump].authenticated
  /\ s[out.pump].client # "Connected"
  /\ ble[out.pump].writes = <<>>

NextSerial(p) ==
  IF ble[p].last = -1 THEN 1 ELSE (ble[p].last + 1) % Pow2(SerialBits)

\* C7: a command that a ready session sends writes a frame whose serial is 1
\* when it is the session's first frame, and otherwise the serial of the frame
\* before it plus one, modulo 2^SerialBits
C7_SerialProgression ==
  [][\A p \in Pumps :
       (Called(p) /\ Ready(p) /\ out'.ret # "False") =>
         /\ out'.frame # <<>>
         /\ FrameSerial(out'.frame) = NextSerial(p)]_vars

\* the value a command should carry for input v and limits lo, hi
Clamped(lo, hi, v) == IF v < lo THEN lo ELSE IF v > hi THEN hi ELSE v

\* the value byte of a control frame: P0 offset 10
ValueByte(frame) == Slice(frame, 12)[11]

\* C8: the frame set_flow(v) writes carries flow_min for v < flow_min, flow_max
\* for v > flow_max and v otherwise in its value byte, which is its last byte;
\* the same for set_frequency with frequency_min and frequency_max
C8_Clamping ==
  /\ (out.op = "set_flow" /\ out.frame # <<>>) =>
        /\ ValueByte(out.frame) = Clamped(flow_min, flow_max, out.arg)
        /\ out.frame[Len(out.frame)] = ValueByte(out.frame)
  /\ (out.op = "set_frequency" /\ out.frame # <<>>) =>
        /\ ValueByte(out.frame) = Clamped(frequency_min, frequency_max, out.arg)
        /\ out.frame[Len(out.frame)] = ValueByte(out.frame)

C8_Witness ==
  /\ out.op = "set_flow"
  /\ out.arg > flow_max
  /\ out.frame # <<>>
  /\ ValueByte(out.frame) = flow_max

KnownModes == {0, 1, 2, 4, 6}

\* C9: on a ready session set_mode(v) writes a control frame if and only if v
\* is a known mode code, and returns failure when it is not; set_mode_by_name
\* with a name that is no display name returns failure and writes nothing
C9_ModeValidity ==
  /\ (out.op = "set_mode" /\ Ready(out.pump)) =>
        /\ out.frame # <<>> <=> out.arg \in KnownModes
        /\ out.arg \notin KnownModes => out.ret = "False"
  /\ (out.op = "set_mode_by_name" /\ out.arg \notin {MODES[c] : c \in KnownModes}) =>
        out.ret = "False" /\ out.frame = <<>>

\* the fields of the pump state a command is about, with state_seen
Echoed(sess) ==
  <<sess.state.power, sess.state.feed, sess.state.mode, sess.state.flow,
    sess.state.frequency>>

\* C10 as written: power, feed, mode, flow, frequency and state_seen change
\* only in a step that handles a notification of the device
C10_OnlyNotificationsChangeState ==
  [][\A p \in Pumps :
       (\/ Echoed(s'[p]) # Echoed(s[p])
        \/ s'[p].state.state_initialized # s[p].state.state_initialized) =>
         out'.op = "notification" /\ out'.pump = p]_vars

\* C10: no command call and no end of a command's write changes power, feed,
\* mode, flow, frequency or state_seen; the five fields change only in a step
\* that handles a notification, and state_seen only in such a step or in the
\* disconnect hook, which resets it
C10_CommandsLeaveState ==
  [][\A p \in Pumps :
       /\ Echoed(s'[p]) # Echoed(s[p]) =>
             out'.op = "notification" /\ out'.pump = p
       /\ s'[p].state.state_initialized # s[p].state.state_initialized =>
             \/ out'.op = "notification" /\ out'.pump = p
             \/ /\ out'.op = "on_disconnect" /\ out'.pump = p
                /\ ~s'[p].state.state_initialized]_vars

C10_Witness ==
  /\ out.op = "command_done"
  /\ out.ret = "True"
  /\ SubSeq(out.frame, 20, 22) = ATTR_FLOW
  /\ ValueByte(out.frame) # s[out.pump].state.flow
  /\ ~s[out.pump].state.state_initialized

----------------------------------------------------------------------------
(* Specification of the inbound updates: a session in its handshake, the   *)
(* notifications of its device, the loss of its link, and the bridge       *)

InitUpdate ==
  /\ s = [p \in Pumps |-> IF p = 1 THEN Handshaking.s ELSE InitSession(p)]
  /\ tk = [p \in Pumps |-> IF p = 1 THEN Handshaking.tk ELSE InitTasks]
  /\ ble = [p \in Pumps |-> IF p = 1 THEN Handshaking.ble ELSE InitBle]
  /\ bridge = StartedBridge
  /\ clock = [now |-> 1, today |-> Today]
  /\ timer = [p \in Pumps |-> InitTimer]
  /\ out = Output("init", -1, <<>>, "none", 0, {}, <<>>)

NextUpdate ==
  \/ Untimed(\E p \in {1} : NotifyFrom(p, UpdateNotifications))
  \/ Untimed(\E p \in {1} : LinkLost(p))
  \/ Untimed(MqttConnected)
  \/ Untimed(MqttLost)
  \/ Untimed(PeriodicPublish)

SpecUpdate == InitUpdate /\ [][NextUpdate]_vars

----------------------------------------------------------------------------
(* Claims about the inbound updates, checked under SpecUpdate *)

KnownAttributes == {ATTR_POWER, ATTR_FEED, ATTR_MODE, ATTR_FLOW, ATTR_FREQUENCY}

\* the control notification data holds a P0 of 11 bytes at offset 12
Decodable(data) ==
  Len(data) >= 23 /\ FrameCmd(data) = CMD_CONTROL

\* the attribute triple and the value of a decodable notification
DecodedAttribute(data) == SubSeq(data, 20, 22)
DecodedValue(data) == data[23]

\* the field of the pump state that attribute attr is about
Current(st, attr) ==
  CASE attr = ATTR_POWER -> st.power
    [] attr = ATTR_FEED -> st.feed
    [] attr = ATTR_MODE -> st.mode
    [] attr = ATTR_FLOW -> st.flow
    [] attr = ATTR_FREQUENCY -> st.frequency

\* the value received for attr, as its field holds it: a switch is on for
\* every value but 0, a number is taken as it is
Received(attr, value) ==
  IF attr \in {ATTR_POWER, ATTR_FEED} THEN value # 0 ELSE value

\* the step handled the notification out'.arg on pump p
Handled(p) == out'.op = "notification" /\ out'.pump = p

\* C11: a decoded value of a known attribute that differs from the state is
\* taken as received (no clamping, no mode validation), state_seen becomes
\* true and the state callback is called exactly once, the other attributes
\* staying as they were; a value equal to the state, or an attribute that is
\* not known, leaves the session as it was and calls no callback
C11_InboundUpdate ==
  [][\A p \in Pumps :
       (Handled(p) /\ Decodable(out'.arg)) =>
         LET attr == DecodedAttribute(out'.arg)
             value == DecodedValue(out'.arg)
         IN IF attr \in KnownAttributes
               /\ Current(s[p].state, attr) # Received(attr, value)
              THEN /\ Current(s'[p].state, attr) = Received(attr, value)
                   /\ \A a \in KnownAttributes \ {attr} :
                        Current(s'[p].state, a) = Current(s[p].state, a)
                   /\ s'[p].state.state_initialized
                   /\ out'.events = 1
              ELSE s'[p] = s[p] /\ out'.events = 0]_vars

C11_Witness ==
  /\ out.op = "notification"
  /\ out.arg = ControlNotification(ATTR_FLOW, 200)
  /\ s[out.pump].state.flow = 200
  /\ s[out.pump].state.mode = 9
  /\ s[out.pump].state.state_initialized
  /\ out.events = 1

\* C12 as written: the 21-byte control notification is decoded: after it the
\* mode is 4 and state_seen is true
C12_ShortFrameDecoded ==
  (out.op = "notification" /\ out.arg = ShortControlFrame) =>
    /\ s[out.pump].state.mode = 4
    /\ s[out.pump].state.state_initialized

\* C12: a control notification is decoded when it has at least 23 bytes, a P0
\* of 11 bytes from offset 12 on; one of 19 to 22 bytes leaves the session as
\* it was and calls no callback.  The 23-byte notification of mode 4, received
\* with another mode, sets the mode to 4 and state_seen to true and calls the
\* callback once, and what that call publishes carries mode/state = "Random"
C12_ControlDecoded ==
  [][\A p \in Pumps :
       (Handled(p) /\ Len(out'.arg) >= 19 /\ FrameCmd(out'.arg) = CMD_CONTROL) =>
         /\ Len(out'.arg) < 23 => s'[p] = s[p] /\ out'.events = 0
         /\ (out'.arg = ControlNotification(ATTR_MODE, 4) /\ s[p].state.mode # 4) =>
               /\ s'[p].state.mode = 4
               /\ s'[p].state.state_initialized
               /\ out'.events = 1
               /\ (bridge.mqtt_connected =>
                     <<p, "mode/state", "Random">> \in out'.pub)]_vars

C12_Witness ==
  /\ out.op = "notification"
  /\ out.arg = ControlNotification(ATTR_MODE, 4)
  /\ Len(out.arg) = 23
  /\ s[out.pump].state.mode = 4
  /\ out.events = 1
  /\ <<out.pump, "mode/state", "Random">> \in out.pub

----------------------------------------------------------------------------
(* Specification of the session with its scheduling: a coroutine that can  *)
(* run does run, and a library call that is awaited ends.  The device and  *)
(* the link owe nothing: no notification and no loss of a link is forced.  *)

Fairness(p) ==
  /\ WF_vars(Untimed(Kickoff(p)))
  /\ WF_vars(Untimed(ConnectEnter(p)))
  /\ WF_vars(Untimed(ReconnectEnter(p)))
  /\ \A t \in Tasks :
       /\ WF_vars(Untimed(Connected(p, t)))
       /\ WF_vars(Untimed(Subscribed(p, t)))
       /\ WF_vars(Untimed(PasscodeWritten(p, t)))
       /\ WF_vars(Untimed(Poll(p, t)))
       /\ WF_vars(Untimed(CleanedUp(p, t)))
  /\ WF_vars(Untimed(SendLogin(p)))
  /\ WF_vars(Untimed(ReconnectStart(p)))
  /\ WF_vars(Untimed(ReconnectStaggered(p)))
  /\ WF_vars(Untimed(ReconnectWake(p)))
  /\ WF_vars(Untimed(Disconnected(p)))

SpecLive == Spec /\ Fairness(1)

----------------------------------------------------------------------------
(* Claims about the session's progress, checked under SpecLive *)

\* the step just taken handled a login_response whose status byte is not zero
\* on a session that waits for its handshake and is not authenticated
LoginRejected(p) ==
  /\ out.op = "notification" /\ out.pump = p
  /\ Len(out.arg) > 8
  /\ FrameCmd(out.arg) = CMD_LOGIN_RESPONSE
  /\ out.arg[9] # 0
  /\ Connecting(p)
  /\ ~s[p].authenticated

\* no GATT link of the session is up
TornDown(p) == s[p].client # "Connected" /\ ble[p].stale = "none"

\* the reconnect loop of the session runs
Reconnecting(p) == s[p].reconnect_task = "Running"

\* C13: a rejected login leaves the session not authenticated and link_up
\* false and the command-topic subscriptions as they were, and it leads to the
\* link torn down and the reconnect loop entered, unless a later login is
\* accepted or disconnect() is called first
C13_LoginRejection ==
  /\ [](LoginRejected(1) => ~s[1].state.connected)
  /\ [][out'.op = "notification" => bridge'.subs = bridge.subs]_vars
  /\ LoginRejected(1) ~>
       \/ TornDown(1) /\ Reconnecting(1)
       \/ s[1].authenticated
       \/ ~s[1].running

----------------------------------------------------------------------------
(* Specification of the login: the session of one pump, with the task that *)
(* asyncio.create_task(self._send_login()) makes run at the next iteration *)
(* of the loop, ahead of whatever the session is woken for later           *)

\* no _send_login task is waiting for its turn
NoLoginPending(p) == tk[p].logins = 0

LoginNext(p) ==
  \/ Untimed(SendLogin(p))
  \/ NoLoginPending(p) /\ Untimed(Kickoff(p))
  \/ NoLoginPending(p) /\ Untimed(ConnectEnter(p))
  \/ NoLoginPending(p) /\ Untimed(ReconnectEnter(p))
  \/ NoLoginPending(p) /\ Untimed(\E t \in Tasks : Connected(p, t))
  \/ NoLoginPending(p) /\ Untimed(\E t \in Tasks : Subscribed(p, t))
  \/ NoLoginPending(p) /\ Untimed(\E t \in Tasks : PasscodeWritten(p, t))
  \/ NoLoginPending(p) /\ Untimed(\E t \in Tasks : Poll(p, t))
  \/ NoLoginPending(p) /\ Untimed(\E t \in Tasks : CleanedUp(p, t))
  \/ NoLoginPending(p) /\ Untimed(LinkLost(p))
  \/ NoLoginPending(p) /\ Untimed(StaleLinkLost(p))
  \/ NoLoginPending(p) /\ Untimed(NotifyFrom(p, LoginNotifications))
  \/ NoLoginPending(p) /\ Untimed(ReconnectStart(p))
  \/ NoLoginPending(p) /\ Untimed(ReconnectStaggered(p))
  \/ NoLoginPending(p) /\ Untimed(ReconnectWake(p))
  \/ NoLoginPending(p) /\ Untimed(Disconnect(p))
  \/ NoLoginPending(p) /\ Untimed(Disconnected(p))

NextLogin == \E p \in {1} : LoginNext(p)

SpecLogin == Init /\ [][NextLogin]_vars

----------------------------------------------------------------------------
(* Claims about the login, checked under SpecLogin *)

\* the bytes of a frame from offset 8 on
Blob(data) == SubSeq(data, 9, Len(data))

\* the frame is a passcode_response that carries a passcode
CarriesPasscode(data) ==
  Len(data) > 8 /\ FrameCmd(data) = CMD_PASSCODE_RESPONSE

\* the step wrote a login frame on pump p
LoginWritten(p) == out'.op = "send_login" /\ out'.pump = p /\ out'.frame # <<>>

\* C14: the passcode the session holds is the bytes from offset 8 on of the
\* passcode_response it received last, every login frame it writes is the
\* login packet of that passcode, and it writes one only after a
\* passcode_response came over the link of its current client
C14_LoginEchoesPasscode ==
  [][\A p \in Pumps :
       /\ (Handled(p) /\ CarriesPasscode(out'.arg)) =>
             s'[p].passcode = Blob(out'.arg)
       /\ s'[p].passcode # s[p].passcode =>
             Handled(p) /\ CarriesPasscode(out'.arg)
       /\ LoginWritten(p) =>
             /\ out'.frame =
                  <<0, 0, 0, 3, 3 + Len(s[p].passcode), 0, 0, 8>> \o s[p].passcode
             /\ ble[p].heard]_vars

----------------------------------------------------------------------------
(* The timing of _reconnect_loop: SpecBackoff keeps time in milliseconds *)

\* _reconnect_loop: "delay = 5" and "max_delay = 300", in seconds
InitialDelay == 5
max_delay == 300

\* milliseconds in a second: the resolution the real-valued delay is kept at
Millis == 1000

NowMs == clock.now * Millis

\* _reconnect_loop: "stagger_delay = self._pump_index * 2"
stagger_delay(index) == index * 2 * Millis

\* random.uniform(0, delay * 0.1): the ends of the interval stand for it
Jitters(delay) == {0, delay \div 10}

BackoffUncapped(delay, jitter) == delay * 2 + jitter

\* _reconnect_loop: "delay = min(delay * 2 + jitter, max_delay)"
Backoff(delay, jitter) == Min(delay * 2 + jitter, max_delay * Millis)

\* "await asyncio.sleep(delay)" begins
Asleep(T) == [T EXCEPT !.wake = NowMs + T.delay]

\* connect() returned False: the delay backs off and the next sleep begins
Backed(T, jitter) == Asleep([T EXCEPT !.delay = Backoff(@, jitter)])

\* the timer of pump p after a step of the connect() its loop called
TimedReturn(p) ==
  IF tk[p].pc.reconnect # "sleep" /\ tk'[p].pc.reconnect = "sleep"
    THEN \E jitter \in Jitters(timer[p].delay) :
           timer' = [timer EXCEPT ![p] = Backed(@, jitter)]
    ELSE UNCHANGED timer

Timed(p, A) == A /\ TimedReturn(p)

\* _reconnect_loop starts: the delay is set, and the stagger sleep or the
\* first sleep of the loop begins
TimedStart(p) ==
  /\ ReconnectStart(p)
  /\ LET T == [InitTimer EXCEPT !.delay = InitialDelay * Millis, !.started = NowMs]
     IN timer' = [timer EXCEPT ![p] =
                    IF tk'[p].pc.reconnect = "stagger"
                      THEN [T EXCEPT !.wake = NowMs + stagger_delay(s[p].pump_index)]
                    ELSE IF tk'[p].pc.reconnect = "sleep" THEN Asleep(T)
                    ELSE T]

\* the stagger sleep is over: the first sleep of the loop begins
TimedStaggered(p) ==
  /\ NowMs >= timer[p].wake
  /\ ReconnectStaggered(p)
  /\ timer' = [timer EXCEPT ![p] =
                 IF tk'[p].pc.reconnect = "sleep" THEN Asleep(@) ELSE @]

\* the sleep of the loop is over: connect() is called unless the bridge
\* shuts down, and a connect() that fails at once backs the delay off
TimedWake(p) ==
  /\ NowMs >= timer[p].wake
  /\ timer[p].attempts < MaxAttempts
  /\ ReconnectWake(p)
  /\ LET T == IF s[p].running
                THEN [timer[p] EXCEPT !.attempts = @ + 1,
                                      !.first = IF @ = -1 THEN NowMs ELSE @]
                ELSE timer[p]
     IN IF tk'[p].pc.reconnect = "sleep"
          THEN \E jitter \in Jitters(T.delay) :
                 timer' = [timer EXCEPT ![p] = Backed(T, jitter)]
          ELSE timer' = [timer EXCEPT ![p] = T]

\* the sessions whose loop sleeps past now
Sleepers ==
  {p \in Pumps : tk[p].pc.reconnect \in {"stagger", "sleep"} /\ timer[p].wake > NowMs}

\* the first whole second at which a sleep that ends at wake is over
DueSecond(wake) == (wake + Millis - 1) \div Millis

\* time passes until the first of the sleeps is over
Elapse ==
  /\ Sleepers # {}
  /\ \E p \in Sleepers :
       /\ \A q \in Sleepers : timer[p].wake <= timer[q].wake
       /\ clock' = [clock EXCEPT !.now = DueSecond(timer[p].wake)]
  /\ out' = Output("elapse", -1, <<>>, "none", 0, {}, <<>>)
  /\ UNCHANGED <<s, tk, ble, bridge, timer>>

\* a session of the given index after a successful login
Established(index) ==
  [s |-> [InitSession(index) EXCEPT !.client = "Connected", !.loop = TRUE,
                                    !.authenticated = TRUE,
                                    !.state.connected = TRUE,
                                    !.passcode = <<170, 187>>],
   tk |-> [InitTasks EXCEPT !.pc.startup = "done"],
   ble |-> [InitBle EXCEPT !.notify = TRUE, !.heard = TRUE]]

\* one of the sessions is established, the other was never started
InitBackoff ==
  \E a \in Pumps :
    /\ s = [p \in Pumps |-> IF p = a THEN Established(p).s ELSE InitSession(p)]
    /\ tk = [p \in Pumps |-> IF p = a THEN Established(p).tk ELSE InitTasks]
    /\ ble = [p \in Pumps |-> IF p = a THEN Established(p).ble ELSE InitBle]
    /\ bridge = StartedBridge
    /\ clock = [now |-> 0, today |-> Today]
    /\ timer = [p \in Pumps |-> InitTimer]
    /\ out = Output("init", -1, <<>>, "none", 0, {}, <<>>)

\* the session loses its link once; its loop then runs with the time kept
BackoffNext(p) ==
  \/ timer[p].delay = 0 /\ Untimed(LinkLost(p))
  \/ TimedStart(p)
  \/ TimedStaggered(p)
  \/ TimedWake(p)
  \/ Timed(p, Connected(p, "reconnect"))
  \/ Timed(p, Subscribed(p, "reconnect"))
  \/ Timed(p, PasscodeWritten(p, "reconnect"))
  \/ Timed(p, Poll(p, "reconnect"))
  \/ Timed(p, CleanedUp(p, "reconnect"))

NextBackoff ==
  \/ \E p \in Pumps : BackoffNext(p)
  \/ Elapse

SpecBackoff == InitBackoff /\ [][NextBackoff]_vars

\* both sessions are established
InitStagger ==
  /\ s = [p \in Pumps |-> Established(p).s]
  /\ tk = [p \in Pumps |-> Established(p).tk]
  /\ ble = [p \in Pumps |-> Established(p).ble]
  /\ bridge = StartedBridge
  /\ clock = [now |-> 0, today |-> Today]
  /\ timer = [p \in Pumps |-> InitTimer]
  /\ out = Output("init", -1, <<>>, "none", 0, {}, <<>>)

\* each session loses its link once, and its loop runs up to the end of the
\* first connect() it calls
StaggerNext(p) ==
  \/ timer[p].delay = 0 /\ Untimed(LinkLost(p))
  \/ TimedStart(p)
  \/ TimedStaggered(p)
  \/ timer[p].first = -1 /\ TimedWake(p)
  \/ Timed(p, Connected(p, "reconnect"))
  \/ Timed(p, Subscribed(p, "reconnect"))
  \/ Timed(p, PasscodeWritten(p, "reconnect"))
  \/ Timed(p, Poll(p, "reconnect"))
  \/ Timed(p, CleanedUp(p, "reconnect"))

NextStagger ==
  \/ \E p \in Pumps : StaggerNext(p)
  \/ Elapse

SpecStagger == InitStagger /\ [][NextStagger]_vars

----------------------------------------------------------------------------
(* Claims about the reconnect delays, checked under SpecBackoff *)

\* the step starts the reconnect loop of pump p
LoopStarted(p) ==
  out'.op = "reconnect" /\ out'.pump = p /\ tk[p].pc.reconnect = "start"

\* in the step the connect() the loop of pump p called returned False and the
\* loop went round
AttemptFailed(p) ==
  out'.pump = p /\ out'.ret = "False" /\ tk'[p].pc.reconnect = "sleep"

\* C15: within one reconnect loop the delay starts at 5 s; when an attempt
\* fails the next delay is min(2 * delay + jitter, 300 s) with
\* 0 <= jitter <= delay / 10, and the delay changes in no other step; the
\* delays never decrease and none exceeds 300 s plus 10%
C15_BackoffBounds ==
  [][\A p \in Pumps :
       /\ LoopStarted(p) => timer'[p].delay = 5000
       /\ (~LoopStarted(p) /\ AttemptFailed(p)) =>
             /\ timer'[p].delay >= Min(2 * timer[p].delay, 300000)
             /\ timer'[p].delay <=
                  Min(2 * timer[p].delay + timer[p].delay \div 10, 300000)
       /\ (~LoopStarted(p) /\ ~AttemptFailed(p)) =>
             timer'[p].delay = timer[p].delay
       /\ ~LoopStarted(p) => timer'[p].delay >= timer[p].delay
       /\ timer'[p].delay <= 330000]_vars

\* the delay of a loop has reached 300 s after six failed attempts, and the
\* loop sleeps before its seventh
C15_Witness ==
  \E p \in Pumps :
    /\ timer[p].delay = 300000
    /\ timer[p].attempts >= 6
    /\ tk[p].pc.reconnect = "sleep"

----------------------------------------------------------------------------
(* Claims about the stagger of the reconnect loops, checked under SpecStagger *)

\* the loop of pump p has made its first attempt
Attempted(p) == timer[p].first # -1

\* C16: the first reconnect attempt of the session with index i comes no
\* earlier than 2 * i + 5 seconds after its reconnect loop started, so that
\* of two sessions with indices 0 and 1 whose loops start at time 0 the first
\* attempts no earlier than 5 s and the second no earlier than 7 s
C16_StaggeredFirstAttempt ==
  \A p \in Pumps :
    Attempted(p) =>
      timer[p].first >= timer[p].started + (2 * s[p].pump_index + 5) * 1000

\* both sessions lost their link at time 0; session 0 made its first attempt
\* at 5 s and session 1 at 7 s
C16_Witness ==
  /\ timer[0].started = 0 /\ timer[0].first = 5000
  /\ timer[1].started = 0 /\ timer[1].first = 7000

----------------------------------------------------------------------------
(* Runtime accounting: SpecRuntime lets the clock run and the date change *)

\* local dates, in order: date.today().isoformat()
Dates == <<"2026-01-01", "2026-01-02", "2026-01-03">>

\* the seconds time.time() advances by between two steps
Ticks == {1800}

\* time passes
Tick ==
  /\ \E d \in Ticks :
       /\ clock.now + d <= MaxHours * 3600 + 1
       /\ clock' = [clock EXCEPT !.now = @ + d]
  /\ out' = Output("tick", -1, <<>>, "none", 0, {}, <<>>)
  /\ UNCHANGED <<s, tk, ble, bridge, timer>>

\* the local date changes
Midnight ==
  /\ \E i \in 1..(Len(Dates) - 1) :
       /\ clock.today = Dates[i]
       /\ clock' = [clock EXCEPT !.today = Dates[i + 1]]
  /\ out' = Output("midnight", -1, <<>>, "none", 0, {}, <<>>)
  /\ UNCHANGED <<s, tk, ble, bridge, timer>>

\* the notifications of a pump that is switched on and off
RuntimeNotifications ==
  {LoginOkFrame, ControlNotification(ATTR_POWER, 1), ControlNotification(ATTR_POWER, 0)}

\* the session of pump 1 is established; the broker is not connected
InitRuntime ==
  /\ s = [p \in Pumps |-> IF p = 1 THEN Established(p).s ELSE InitSession(p)]
  /\ tk = [p \in Pumps |-> IF p = 1 THEN Established(p).tk ELSE InitTasks]
  /\ ble = [p \in Pumps |-> IF p = 1 THEN Established(p).ble ELSE InitBle]
  /\ bridge = StartedBridge
  /\ clock = [now |-> 1, today |-> Dates[1]]
  /\ timer = [p \in Pumps |-> InitTimer]
  /\ out = Output("init", -1, <<>>, "none", 0, {}, <<>>)

\* a step of the reconnect loop of pump p in which connect() does not fail
Succeeding(p, A) ==
  A /\ tk'[p].pc.reconnect # "cleanup" /\ out'.ret # "False" /\ UNCHANGED timer

\* power notifications, publishes, disconnects and reconnects of one session
RuntimeNext(p) ==
  \/ Untimed(NotifyFrom(p, RuntimeNotifications))
  \/ Untimed(LinkLost(p))
  \/ Untimed(ReconnectStart(p))
  \/ Untimed(ReconnectStaggered(p))
  \/ Succeeding(p, ReconnectWake(p))
  \/ Succeeding(p, Connected(p, "reconnect"))
  \/ Succeeding(p, Subscribed(p, "reconnect"))
  \/ Succeeding(p, PasscodeWritten(p, "reconnect"))
  \/ Succeeding(p, Poll(p, "reconnect"))

NextRuntime ==
  \/ \E p \in {1} : RuntimeNext(p)
  \/ Untimed(MqttConnected)
  \/ Untimed(MqttLost)
  \/ Untimed(PeriodicPublish)
  \/ Tick
  \/ Midnight

SpecRuntime == InitRuntime /\ [][NextRuntime]_vars

----------------------------------------------------------------------------
(* Claims about the runtime accounting, checked under SpecRuntime *)

\* C17: runtime_today never decreases in a step that leaves
\* last_runtime_reset as it was, whatever the power notifications, publishes,
\* disconnects and reconnects
C17_RuntimeMonotone ==
  [][\A p \in Pumps :
       s'[p].state.last_runtime_reset = s[p].state.last_runtime_reset =>
         s'[p].state.runtime_today >= s[p].state.runtime_today]_vars

\* a power-off notification has brought the runtime of the second date to a
\* full hour
C17_Witness ==
  /\ out.op = "notification" /\ out.arg = ControlNotification(ATTR_POWER, 0)
  /\ s[1].state.runtime_today = 3600
  /\ s[1].state.last_runtime_reset = Dates[2]

\* the step published a topic of pump p
Published(p) == \E x \in out'.pub : x[1] = p

\* the step published the runtime of pump p with the payload v
RuntimePublished(p, v) == <<p, "runtime/state", v>> \in out'.pub

\* the step published the state topics of pump p
StatePublished(p) == \E x \in out'.pub : x[1] = p /\ x[2] = "runtime/state"

\* the date of the step is not the date of the last reset of pump p
NewDate(p) == s[p].state.last_runtime_reset # clock'.today

\* the seconds of the powered-on period of pump p that is under way
ActiveSeconds(p) ==
  IF s'[p].state.power /\ s'[p].state.power_on_time > 0
    THEN clock'.now - s'[p].state.power_on_time
    ELSE 0

C19_PowerOffClearsEpoch ==
  \A p \in Pumps : ~s[p].state.power => s[p].state.power_on_time = 0

\* the pump was switched off half an hour after it was switched on, and a
\* disconnect followed
C19_Witness ==
  /\ out.op = "on_disconnect"
  /\ ~s[1].state.power
  /\ s[1].state.runtime_today = 1800

----------------------------------------------------------------------------
(* Command dispatch: SpecDispatch delivers broker messages to the bridge.  *)
(* A topic is the list of its parts (topic.split('/')) and a payload the   *)
(* list of its characters.                                                 *)

\* mqtt_config['topic_prefix'] and the keys of self.pumps
topic_prefix == "jebao"
pump_id(p) == IF p = 0 THEN "pump0" ELSE "pump1"

Digits == <<"0", "1", "2", "3", "4", "5", "6", "7", "8", "9">>
UpperCase == <<"A", "B", "C", "D", "E", "F", "G", "H", "I", "J", "K", "L", "M",
               "N", "O", "P", "Q", "R", "S", "T", "U", "V", "W", "X", "Y", "Z">>
LowerCase == <<"a", "b", "c", "d", "e", "f", "g", "h", "i", "j", "k", "l", "m",
               "n", "o", "p", "q", "r", "s", "t", "u", "v", "w", "x", "y", "z">>

IsDigit(c) == \E i \in DOMAIN Digits : Digits[i] = c
DigitValue(c) == (CHOOSE i \in DOMAIN Digits : Digits[i] = c) - 1

\* the string of a list of characters
RECURSIVE Text(_)
Text(chars) == IF chars = <<>> THEN "" ELSE Head(chars) \o Text(Tail(chars))

\* str.lower()
Lower(chars) ==
  [i \in DOMAIN chars |->
     IF \E k \in DOMAIN UpperCase : UpperCase[k] = chars[i]
       THEN LowerCase[CHOOSE k \in DOMAIN UpperCase : UpperCase[k] = chars[i]]
       ELSE chars[i]]

\* payload.lower() in ('on', 'true', '1')
Truthy(payload) == Text(Lower(payload)) \in {"on", "true", "1"}

\* float(payload) for a payload with no exponent, blank, underscore, "inf" or
\* "nan": an optional sign, digits, and at most one point among them
Unsigned(payload) ==
  IF payload # <<>> /\ payload[1] \in {"-", "+"} THEN Tail(payload) ELSE payload
PointAt(chars) ==
  IF \E i \in DOMAIN chars : chars[i] = "."
    THEN CHOOSE i \in DOMAIN chars :
           chars[i] = "." /\ \A k \in 1..(i - 1) : chars[k] # "."
    ELSE Len(chars) + 1
IntegerPart(chars) == SubSeq(chars, 1, PointAt(chars) - 1)
FractionPart(chars) == SubSeq(chars, PointAt(chars) + 1, Len(chars))
AllDigits(chars) == \A i \in DOMAIN chars : IsDigit(chars[i])

\* float(payload) does not raise ValueError
IsFloat(payload) ==
  LET u == Unsigned(payload)
  IN /\ AllDigits(IntegerPart(u))
     /\ AllDigits(FractionPart(u))
     /\ Len(IntegerPart(u)) + Len(FractionPart(u)) >= 1

RECURSIVE Decimal(_)
Decimal(chars) ==
  IF chars = <<>> THEN 0
  ELSE 10 * Decimal(SubSeq(chars, 1, Len(chars) - 1)) + DigitValue(chars[Len(chars)])

\* int(float(payload)): the fraction is cut off
IntOfFloat(payload) ==
  LET n == Decimal(IntegerPart(Unsigned(payload)))
  IN IF payload # <<>> /\ payload[1] = "-" THEN 0 - n ELSE n

\* what the "except Exception" of _handle_command makes of a call
Caught(r) == IF r.ret = "raise" THEN [r EXCEPT !.ret = "error"] ELSE r

\* a handler that takes every entity it does not know for power
HandleCommandAnyEntity(L, entity, payload) ==
  IF entity = "feed"
    THEN Caught(SendCommand(L, ATTR_FEED, IF Truthy(payload) THEN 1 ELSE 0))
  ELSE IF entity \in {"flow", "frequency"} /\ ~IsFloat(payload)
    THEN [L |-> L, ret |-> "error"]
  ELSE IF entity = "flow"
    THEN Caught(SendCommand(L, ATTR_FLOW,
                            Clamp(flow_min, flow_max, IntOfFloat(payload))))
  ELSE IF entity = "frequency"
    THEN Caught(SendCommand(L, ATTR_FREQUENCY,
                            Clamp(frequency_min, frequency_max, IntOfFloat(payload))))
  ELSE IF entity = "mode"
    THEN Caught(SetModeByNameBody(L, Text(payload)))
  ELSE Caught(SendCommand(L, ATTR_POWER, IF Truthy(payload) THEN 1 ELSE 0))

\* _handle_command up to the await of the write: the session, and "none" when
\* a write is awaited, "False" when the command returned at once, "error"
\* when an exception was logged, "ignored" when no branch took the entity
HandleCommand(L, entity, payload) ==
  IF entity = "power"
    THEN Caught(SendCommand(L, ATTR_POWER, IF Truthy(payload) THEN 1 ELSE 0))
  ELSE IF entity = "feed"
    THEN Caught(SendCommand(L, ATTR_FEED, IF Truthy(payload) THEN 1 ELSE 0))
  ELSE IF entity \in {"flow", "frequency"} /\ ~IsFloat(payload)
    THEN [L |-> L, ret |-> "error"]
  ELSE IF entity = "flow"
    THEN Caught(SendCommand(L, ATTR_FLOW,
                            Clamp(flow_min, flow_max, IntOfFloat(payload))))
  ELSE IF entity = "frequency"
    THEN Caught(SendCommand(L, ATTR_FREQUENCY,
                            Clamp(frequency_min, frequency_max, IntOfFloat(payload))))
  ELSE IF entity = "mode"
    THEN Caught(SetModeByNameBody(L, Text(payload)))
  ELSE [L |-> L, ret |-> "ignored"]

\* _on_mqtt_message: the pump the message is for, or -1 when it is dropped
Routed(parts) ==
  IF Len(parts) < 4 \/ parts[Len(parts)] # "set" THEN -1
  ELSE IF parts[1] # topic_prefix THEN -1
  ELSE IF \E p \in Pumps : pump_id(p) = parts[2]
    THEN CHOOSE p \in Pumps : pump_id(p) = parts[2]
  ELSE -1

\* the command topic of an entity of a pump
SetTopic(id, entity) == <<topic_prefix, id, entity, "set">>

\* messages the broker delivers: a topic and a payload
MessageInputs ==
  {<<SetTopic("pump1", "power"), <<"O", "N">> >>,
   <<SetTopic("pump1", "power"), <<"o", "f", "f">> >>,
   <<SetTopic("pump1", "feed"), <<"1">> >>,
   <<SetTopic("pump1", "flow"), <<"6", "5">> >>,
   <<SetTopic("pump1", "flow"), <<"6", "5", ".", "7">> >>,
   <<SetTopic("pump1", "flow"), <<"a", "b", "c">> >>,
   <<SetTopic("pump1", "flow"), <<>> >>,
   <<SetTopic("pump1", "frequency"), <<"-", "3">> >>,
   <<SetTopic("pump1", "frequency"), <<"1", "2", "x">> >>,
   <<SetTopic("pump1", "mode"), <<"R", "a", "n", "d", "o", "m">> >>,
   <<SetTopic("pump1", "mode"), <<"r", "e", "d">> >>,
   <<SetTopic("pump1", "colour"), <<"r", "e", "d">> >>,
   <<SetTopic("pump0", "power"), <<"O", "N">> >>,
   <<SetTopic("ghost", "flow"), <<"6", "5">> >>,
   <<<<topic_prefix, "pump1", "flow", "state">>, <<"6", "5">> >>,
   <<<<"other", "pump1", "flow", "set">>, <<"6", "5">> >>,
   <<<<topic_prefix, "pump1", "set">>, <<"6", "5">> >>}

\* a message arrives: _on_mqtt_message, and the _handle_command it schedules
\* up to the await of its write
MqttMessage ==
  \E msg \in MessageInputs :
    LET parts == msg[1]
        payload == msg[2]
        p == Routed(parts)
    IN IF p = -1
         THEN /\ out' = Output("mqtt_message", -1, msg, "dropped", 0, {}, <<>>)
              /\ UNCHANGED <<s, tk, ble, bridge, clock>>
         ELSE Command(p, "mqtt_message", msg,
                      HandleCommand(Begin(p), parts[3], payload))

DispatchNext(p) ==
  \/ Untimed(CommandDone(p))
  \/ Untimed(NotifyFrom(p, CommandNotifications))
  \/ Untimed(LinkLost(p))
  \/ Untimed(StaleLinkLost(p))

NextDispatch ==
  \/ Untimed(MqttMessage)
  \/ \E p \in {1} : DispatchNext(p)

SpecDispatch == InitCmd /\ [][NextDispatch]_vars

----------------------------------------------------------------------------
(* Claims about the command dispatch, checked under SpecDispatch *)

\* the step handled a broker message
MessageStep == out'.op = "mqtt_message"

\* the message names no pump of the bridge, names no entity the bridge takes
\* commands for, or carries no number for flow or frequency
UnknownPump(msg) == msg[1][2] \notin {"pump0", "pump1"}
UnknownEntity(msg) ==
  Len(msg[1]) < 3 \/ msg[1][3] \notin {"power", "feed", "flow", "frequency", "mode"}
MalformedNumber(msg) ==
  /\ Len(msg[1]) >= 3 /\ msg[1][3] \in {"flow", "frequency"}
  /\ msg[2] \in {<<"a", "b", "c">>, <<"1", "2", "x">>, <<>>}
InvalidMessage(msg) == UnknownPump(msg) \/ UnknownEntity(msg) \/ MalformedNumber(msg)

\* valid commands for pump 1, with the attribute and value their frame carries
ValidCommands ==
  {[msg |-> <<SetTopic("pump1", "power"), <<"O", "N">> >>, attr |-> <<0, 0, 1>>, value |-> 1],
   [msg |-> <<SetTopic("pump1", "power"), <<"o", "f", "f">> >>, attr |-> <<0, 0, 1>>, value |-> 0],
   [msg |-> <<SetTopic("pump1", "feed"), <<"1">> >>, attr |-> <<0, 0, 4>>, value |-> 1],
   [msg |-> <<SetTopic("pump1", "flow"), <<"6", "5">> >>, attr |-> <<0, 128, 0>>, value |-> 65],
   [msg |-> <<SetTopic("pump1", "flow"), <<"6", "5", ".", "7">> >>, attr |-> <<0, 128, 0>>, value |-> 65],
   [msg |-> <<SetTopic("pump1", "frequency"), <<"-", "3">> >>, attr |-> <<1, 0, 0>>, value |-> 5],
   [msg |-> <<SetTopic("pump1", "mode"), <<"R", "a", "n", "d", "o", "m">> >>, attr |-> <<0, 16, 2>>, value |-> 4]}

\* pump 1 can take a command: it is ready, no write is under way beyond the
\* bound, and its serial counter is in the range of the frame's serial field
Accepting ==
  /\ Ready(1)
  /\ Len(ble[1].writes) < MaxInFlight
  /\ ~SerialOverflows(s[1].command_sn)

----------------------------------------------------------------------------
(* MQTTBridge.start: SpecStartup runs the startup of the bridge against the *)
(* broker client's thread, which calls _on_mqtt_connect                     *)

\* start(): the broker client is created, connected and its thread started
StartBroker ==
  /\ ~bridge.started
  /\ bridge' = [bridge EXCEPT !.started = TRUE]
  /\ out' = Output("start_broker", -1, <<>>, "none", 0, {}, <<>>)
  /\ UNCHANGED <<s, tk, ble, clock>>

\* start(): "self.pumps[pc.id] = pump" for the next pump of the configuration
CreatePump ==
  /\ bridge.started
  /\ \E p \in Pumps \ bridge.pumps :
       /\ \A q \in Pumps : q < p => q \in bridge.pumps
       /\ bridge' = [bridge EXCEPT !.pumps = @ \cup {p}]
       /\ out' = Output("create_pump", p, <<>>, "none", 0, {}, <<>>)
  /\ UNCHANGED <<s, tk, ble, clock>>

\* start(): asyncio.create_task(pump.connect()), pump after pump
StartupKickoff(p) ==
  /\ bridge.pumps = Pumps
  /\ \A q \in Pumps : q < p => tk[q].pc.startup # "pending"
  /\ Kickoff(p)

\* start() has not begun
InitStartup ==
  /\ s = [p \in Pumps |-> InitSession(p)]
  /\ tk = [p \in Pumps |-> InitTasks]
  /\ ble = [p \in Pumps |-> InitBle]
  /\ bridge = [StartedBridge EXCEPT !.pumps = {}, !.started = FALSE]
  /\ clock = [now |-> 1, today |-> Today]
  /\ timer = [p \in Pumps |-> InitTimer]
  /\ out = Output("init", -1, <<>>, "none", 0, {}, <<>>)

StartupNext(p) ==
  \/ Untimed(StartupKickoff(p))
  \/ Untimed(ConnectEnter(p))
  \/ Untimed(Connected(p, "startup"))
  \/ Untimed(Subscribed(p, "startup"))
  \/ Untimed(PasscodeWritten(p, "startup"))
  \/ Untimed(Poll(p, "startup"))
  \/ Untimed(CleanedUp(p, "startup"))
  \/ Untimed(NotifyFrom(p, {LoginOkFrame}))

NextStartup ==
  \/ Untimed(StartBroker)
  \/ Untimed(CreatePump)
  \/ Untimed(MqttConnected)
  \/ Untimed(MqttLost)
  \/ \E p \in Pumps : StartupNext(p)

SpecStartup == InitStartup /\ [][NextStartup]_vars

----------------------------------------------------------------------------
(* Claims about the startup, checked under SpecStartup *)

\* start() has created every pump and kicked off every connect()
StartupDone ==
  /\ bridge.pumps = Pumps
  /\ \A p \in Pumps : tk[p].pc.startup # "pending"

\* the five command topics of pump p
FiveCommandTopics(p) ==
  {<<p, "power">>, <<p, "feed">>, <<p, "flow">>, <<p, "frequency">>, <<p, "mode">>}

\* C21: once startup is done and the broker connection is up, the five
\* command topics of every configured pump are subscribed, whenever the
\* connect callback of the broker client ran
C21_CommandSubscriptions ==
  (StartupDone /\ bridge.mqtt_connected) =>
     \A p \in Pumps : FiveCommandTopics(p) \subseteq bridge.subs

----------------------------------------------------------------------------
(* Two sessions side by side: in SpecIsolation pump 1 goes through its    *)
(* whole life cycle and its failures next to the established pump 0       *)

InitIsolation ==
  /\ s = [p \in Pumps |-> IF p = 0 THEN Established(p).s ELSE InitSession(p)]
  /\ tk = [p \in Pumps |-> IF p = 0 THEN Established(p).tk ELSE InitTasks]
  /\ ble = [p \in Pumps |-> IF p = 0 THEN Established(p).ble ELSE InitBle]
  /\ bridge = [StartedBridge EXCEPT
                 !.mqtt_connected = TRUE,
                 !.subs = UNION {CommandTopics(p) : p \in Pumps}]
  /\ clock = [now |-> 1, today |-> Today]
  /\ timer = [p \in Pumps |-> InitTimer]
  /\ out = Output("init", -1, <<>>, "none", 0, {}, <<>>)

\* the session that connects, fails, loses its link, sends and disconnects
FailingNext(p) ==
  \/ Untimed(Kickoff(p))
  \/ Untimed(ConnectEnter(p))
  \/ Untimed(Connected(p, "startup"))
  \/ Untimed(Subscribed(p, "startup"))
  \/ Untimed(PasscodeWritten(p, "startup"))
  \/ Untimed(Poll(p, "startup"))
  \/ Untimed(CleanedUp(p, "startup"))
  \/ Untimed(LinkLost(p))
  \/ Untimed(StaleLinkLost(p))
  \/ Untimed(NotifyFrom(p, {ShortFrame, LoginOkFrame}))
  \/ Untimed(SetPower(p))
  \/ Untimed(CommandDone(p))
  \/ Untimed(Disconnect(p))
  \/ Untimed(Disconnected(p))

\* the session next to it: power notifications and a link loss
NeighbourNext(p) ==
  \/ Untimed(NotifyFrom(p, {ControlNotification(ATTR_POWER, 1),
                            ControlNotification(ATTR_POWER, 0)}))
  \/ Untimed(LinkLost(p))

NextIsolation ==
  \/ \E p \in {1} : FailingNext(p)
  \/ \E p \in {0} : NeighbourNext(p)

SpecIsolation == InitIsolation /\ [][NextIsolation]_vars

\* what the claim names of a session: pump state, authentication, serial
\* number and reconnect task
SessionView(q) ==
  <<s[q].state, s[q].authenticated, s[q].command_sn, s[q].reconnect_task,
    tk[q].pc.reconnect>>

\* C22: a step of one session (connect failure, handshake timeout, link
\* loss, transport error on a command, malformed notification, disconnect,
\* or any other operation) leaves the pump state, authentication, serial
\* number and reconnect task of every other session unchanged.
C22_SessionIsolation ==
  [][\A q \in Pumps : q # out'.pump => SessionView(q)' = SessionView(q)]_vars

\* one session's connect() has just failed while its neighbour is
\* authenticated and has taken a power notification
C22_Witness ==
  /\ out.pump = 1
  /\ out.ret = "False"
  /\ ~s[1].authenticated
  /\ s[0].authenticated
  /\ s[0].state.power

-----------------------------------------------------------------------------
(* Framing: _make_packet and the parse of _notification_handler *)

MaxPayload == 2

\* the longest payload whose length byte 3 + len(payload) fits a byte
LongestPayload == 255 - 3

PayloadBytes == {0, 3, 255}

\* bytes(n): n zero bytes
Fill(n) == [i \in 1..n |-> 0]

\* short payloads of every content, and the longest payloads
Payloads ==
  UNION {[1..n -> PayloadBytes] : n \in 0..MaxPayload}
    \cup {Fill(LongestPayload - 1), Fill(LongestPayload)}

\* the command set: what the bridge sends and what it takes
CommandSet ==
  {CMD_GET_PASSCODE, CMD_LOGIN, CMD_CONTROL,
   CMD_PASSCODE_RESPONSE, CMD_LOGIN_RESPONSE, CMD_CONTROL_ACK}

\* bytes([.., length, ..]) raises ValueError for a length over 255
LengthFits(payload) == 3 + Len(payload) <= 255

\* _notification_handler: frames under 8 bytes are dropped, the command is
\* data[6:8] big-endian, the payload data[8:]
ParseFrame(data) ==
  IF Len(data) < 8 THEN <<>> ELSE <<FrameCmd(data), Slice(data, 8)>>

InitFraming ==
  /\ s = [p \in Pumps |-> InitSession(p)]
  /\ tk = [p \in Pumps |-> InitTasks]
  /\ ble = [p \in Pumps |-> InitBle]
  /\ bridge = StartedBridge
  /\ clock = [now |-> 1, today |-> Today]
  /\ timer = [p \in Pumps |-> InitTimer]
  /\ \E cmd \in CommandSet, payload \in Payloads :
       out = Output("input", -1, <<cmd, payload>>, <<>>, 0, {}, <<>>)

\* _make_packet(cmd, payload)
BuildFrame ==
  /\ out.op = "input"
  /\ LengthFits(out.arg[2])
  /\ out' = [out EXCEPT !.op = "build", !.frame = MakePacket(out.arg[1], out.arg[2])]
  /\ UNCHANGED <<s, tk, ble, bridge, clock, timer>>

\* the frame comes back in a notification
ParseBuilt ==
  /\ out.op = "build"
  /\ out' = [out EXCEPT !.op = "parse", !.ret = ParseFrame(out.frame)]
  /\ UNCHANGED <<s, tk, ble, bridge, clock, timer>>

NextFraming == BuildFrame \/ ParseBuilt

SpecFraming == InitFraming /\ [][NextFraming]_vars

\* C23: for every command of the command set and every payload of fewer
\* than 253 bytes, the frame built has the magic 00 00 00 03, the length
\* byte 3 + len(payload), the reserved byte 0 and the big-endian command at
\* offset 6, and parsing it gives back exactly (cmd, payload).
C23_FramingRoundTrip ==
  /\ (out.op \in {"build", "parse"} /\ Len(out.arg[2]) < 253) =>
        /\ SubSeq(out.frame, 1, 4) = <<0, 0, 0, 3>>
        /\ out.frame[5] = 3 + Len(out.arg[2])
        /\ out.frame[5] <= 255
        /\ out.frame[6] = 0
        /\ out.frame[7] = out.arg[1] \div 256
        /\ out.frame[8] = out.arg[1] % 256
        /\ Len(out.frame) = 8 + Len(out.arg[2])
  /\ (out.op = "parse" /\ Len(out.arg[2]) < 253) => out.ret = out.arg

\* the longest payload went round in a control frame
C23_Witness ==
  /\ out.op = "parse"
  /\ out.arg[1] = CMD_CONTROL
  /\ Len(out.arg[2]) = 252
  /\ out.ret = out.arg

-----------------------------------------------------------------------------
(* Mode names: MODES and MODE_VALUES *)

\* the mode attribute is one byte of the P0
ModeBytes == 0..255

\* names a select entity can send: the display names and two others
ModeNames == {MODES[c] : c \in DOMAIN MODES} \cup {"Unknown", "Invalid"}

NoCode == -1

\* MODES.get(code, "Unknown")
name_of(code) == ModeName(code)

\* set_mode_by_name: MODE_VALUES[name] for a name in MODE_VALUES, else no code
code_of(name) == IF name \in DOMAIN MODE_VALUES THEN MODE_VALUES[name] ELSE NoCode

InitModes ==
  /\ s = [p \in Pumps |-> InitSession(p)]
  /\ tk = [p \in Pumps |-> InitTasks]
  /\ ble = [p \in Pumps |-> InitBle]
  /\ bridge = StartedBridge
  /\ clock = [now |-> 1, today |-> Today]
  /\ timer = [p \in Pumps |-> InitTimer]
  /\ \/ \E c \in ModeBytes : out = Output("code", -1, c, <<>>, 0, {}, <<>>)
     \/ \E n \in ModeNames : out = Output("name", -1, n, <<>>, 0, {}, <<>>)

\* the name of the code last obtained (or of the input)
NameOf ==
  /\ \/ out.op = "code" /\ out.ret = <<>>
     \/ out.op = "name" /\ Len(out.ret) = 1
  /\ out' = [out EXCEPT !.ret =
               Append(@, name_of(IF @ = <<>> THEN out.arg ELSE @[Len(@)]))]
  /\ UNCHANGED <<s, tk, ble, bridge, clock, timer>>

\* the code of the name last obtained (or of the input)
CodeOf ==
  /\ \/ out.op = "name" /\ out.ret = <<>>
     \/ out.op = "code" /\ Len(out.ret) = 1
  /\ out' = [out EXCEPT !.ret =
               Append(@, code_of(IF @ = <<>> THEN out.arg ELSE @[Len(@)]))]
  /\ UNCHANGED <<s, tk, ble, bridge, clock, timer>>

NextModes == NameOf \/ CodeOf

SpecModes == InitModes /\ [][NextModes]_vars

DisplayNames == {MODES[c] : c \in DOMAIN MODES}

\* C24: for every mode code c of the known set {0,1,2,4,6},
\* code_of(name_of(c)) = c; for every display name n, name_of(code_of(n)) = n;
\* and the code-to-name map is injective.
C24_ModeBijection ==
  /\ DOMAIN MODES = KnownModes
  /\ (out.op = "code" /\ out.arg \in KnownModes /\ Len(out.ret) = 2) =>
        out.ret[2] = out.arg
  /\ (out.op = "name" /\ out.arg \in DisplayNames /\ Len(out.ret) = 2) =>
        out.ret[2] = out.arg
  /\ \A c, d \in DOMAIN MODES : MODES[c] = MODES[d] => c = d

\* code 6 went to "Constant" and back
C24_Witness ==
  /\ out.op = "code"
  /\ out.arg = 6
  /\ out.ret = <<"Constant", 6>>

-----------------------------------------------------------------------------
(* Claims about reconnection, checked under SpecLive *)

\* the step just taken is the return of a connect() that failed
ConnectFailed(p) ==
  /\ out.pump = p
  /\ out.op \in {"connect", "connect_timeout", "cleanup", "reconnect"}
  /\ out.ret = "False"

\* C25: every failed connect attempt of a running session, the one kicked
\* off at startup included, puts the session into the reconnect loop (unless
\* the session is told to stop), so that a further attempt follows.
C25_FailedConnectRetried ==
  (ConnectFailed(1) /\ s[1].running) ~> (Reconnecting(1) \/ ~s[1].running)

\* a connect() of the session is pending or in progress
Attempting(p) == \E t \in Tasks : tk[p].pc[t] \notin {"none", "done"}

\* the session runs, is not authenticated, and neither a connect() nor a
\* reconnect loop of it is pending or in progress
Stranded(p) ==
  /\ s[p].running
  /\ ~s[p].authenticated
  /\ ~Attempting(p)
  /\ s[p].reconnect_task # "Running"

\* C26: once a session has been authenticated, whatever the interleaving of
\* the disconnect hook and the reconnect loop, it never reaches a state in
\* which it runs, is not authenticated and has neither a connect attempt in
\* progress nor a reconnect loop pending.
C26_ReconnectsUntilAuthenticated ==
  [](s[1].authenticated => []~Stranded(1))

\* a reconnect loop of the session is in flight: scheduled and not ended
InFlight(p) == tk[p].pc.reconnect \notin {"none", "done"}

\* C27: the disconnect hook schedules a reconnect loop only when no reconnect
\* loop of the session is in flight, whatever the number and interleaving of
\* its invocations (those of the session's own cleanup during a reconnect
\* attempt included); the task the session holds is running exactly while
\* its loop is in flight.
C27_SingleReconnectLoop ==
  [][/\ (tk'[1].pc.reconnect = "start" /\ tk[1].pc.reconnect # "start") =>
          ~InFlight(1) /\ s[1].reconnect_task # "Running"
     /\ InFlight(1)' <=> (s'[1].reconnect_task = "Running")]_vars

\* the cleanup of a failed reconnect attempt brought the link down, the hook
\* ran, and the loop that called connect() goes on as the only one
C27_Witness ==
  /\ out.pump = 1
  /\ out.op = "cleanup"
  /\ out.events = 1
  /\ tk[1].pc.startup = "done"
  /\ tk[1].pc.reconnect = "sleep"
  /\ s[1].reconnect_task = "Running"

\* the reconnect loop of the session is in a connect() it called
LoopConnecting(p) ==
  tk[p].pc.reconnect \in
    {"lock", "connecting", "subscribing", "writing", "polling", "cleanup"}

\* the reconnect loop of the session sleeps: its stagger or its delay
LoopSleeping(p) == tk[p].pc.reconnect \in {"stagger", "sleep"}

\* C28 (amended): once the session is told to stop its reconnect loop makes
\* no further connect() attempt; _running is checked once per round, after
\* the delay sleep and before the attempt, and the loop then ends; a loop
\* scheduled after the stop still sleeps its stagger and its delay first.
C28_NoAttemptAfterStop ==
  /\ [](~s[1].running => ~LoopConnecting(1))
  /\ [][(~s[1].running /\ tk[1].pc.reconnect = "sleep"
           /\ tk'[1].pc.reconnect # "sleep") =>
          tk'[1].pc.reconnect = "done" /\ s'[1].reconnect_task = "Done"]_vars

\* C28 as stated: once the session is told to stop its reconnect loop makes
\* no further connect() attempt, and _running is checked before each sleep
\* as well as before each attempt: a stopped session's loop begins no sleep.
C28_CheckedBeforeSleepAndAttempt ==
  /\ C28_NoAttemptAfterStop
  /\ [][~s[1].running => (LoopSleeping(1)' => LoopSleeping(1))]_vars

\* the loop the hook scheduled during disconnect() slept, found _running
\* false and ended by itself
C28_Witness ==
  /\ out.pump = 1
  /\ out.op = "reconnect"
  /\ ~s[1].running
  /\ tk[1].pc.reconnect = "done"
  /\ s[1].reconnect_task = "Done"

\* the session is Idle: told to stop, not authenticated, link_up false, no
\* GATT link held
Idle(p) ==
  /\ ~s[p].running
  /\ ~s[p].authenticated
  /\ ~s[p].state.connected
  /\ s[p].client # "Connected"

\* C29: once disconnect() has completed the session is Idle and stays Idle,
\* whatever connect attempt starts or finishes afterwards (a startup kickoff
\* still pending, a connect() in progress, a reconnect loop scheduled by the
\* hook).
C29_StaysIdleAfterDisconnect ==
  tk[1].stop = "done" => Idle(1)

\* the step just taken is the return of a connect() whose polls ran out
TimedOut(p) ==
  /\ out.pump = p
  /\ out.op \in {"connect_timeout", "cleanup"}
  /\ out.ret = "False"
  /\ tk[p].polls = PollLimit - 1

\* C30: when the polls that follow the get_passcode write run out, connect()
\* returns failure, and on its return the session is not authenticated,
\* link_up is false and the GATT connection is disconnected and released,
\* also when a login success arrived during the last poll interval.
C30_HandshakeTimeout ==
  TimedOut(1) =>
    /\ ~s[1].authenticated
    /\ ~s[1].state.connected
    /\ s[1].client = "None"
    /\ ble[1].stale = "none"

-----------------------------------------------------------------------------
(* Claims about connect() and the handshake, checked under Spec *)

\* the step just taken is a call of connect() that got the lock at once
ConnectCalled(p) ==
  /\ out'.pump = p
  /\ out'.op = "connect"
  /\ s[p].connect_lock = "free"

\* C31: connect() called while the session is authenticated returns success
\* immediately, opens no new GATT link, writes no frame and changes no
\* session state; and it returns success without a handshake only when the
\* session is authenticated.
C31_ConnectIdempotent ==
  [][ConnectCalled(1) =>
       /\ s[1].authenticated =>
            /\ out'.ret = "True"
            /\ out'.frame = <<>>
            /\ s'[1] = s[1]
            /\ ble'[1] = ble[1]
       /\ out'.ret = "True" => s[1].authenticated]_vars

\* C32: the session becomes authenticated only after a passcode_response
\* came over its current connection (and the login it answers with was
\* handed to the writer), and state_seen is set only on an authenticated
\* session: a login_response or an attribute update received earlier in the
\* handshake changes neither.
C32_StrictHandshakeOrder ==
  [][/\ (~s[1].authenticated /\ s'[1].authenticated) =>
          /\ ble[1].heard
          /\ tk[1].logins = 0
          /\ s[1].client = "Connected"
     /\ (~s[1].state.state_initialized /\ s'[1].state.state_initialized) =>
          s[1].authenticated]_vars

-----------------------------------------------------------------------------
(* Specification of concurrent commands: every broker message schedules its *)
(* own _handle_command coroutine, which runs up to the await of its write   *)
(* while the writes of earlier ones are still awaited                       *)

\* the _handle_command coroutines that may await their write at a time
MaxDispatched == 2

ConcurrentInputs ==
  {<<SetTopic("pump1", "power"), <<"O", "N">> >>,
   <<SetTopic("pump1", "flow"), <<"6", "5">> >>,
   <<SetTopic("pump1", "mode"), <<"R", "a", "n", "d", "o", "m">> >>}

\* a message arrives while earlier commands await their writes
ConcurrentMessage ==
  \E msg \in ConcurrentInputs :
    LET p == Routed(msg[1])
        r == HandleCommand(Begin(p), msg[1][3], msg[2])
    IN /\ p # -1
       /\ r.ret = "none" => Len(ble[p].writes) < MaxDispatched
       /\ CommitArg(p, r.L, "mqtt_message", msg, r.ret)

NextConcurrent ==
  \/ Untimed(ConcurrentMessage)
  \/ \E p \in {1} : DispatchNext(p)

SpecConcurrent == InitCmd /\ [][NextConcurrent]_vars

\* C33: within one session at most one command write is in flight at the
\* transport at any time, and the frames reach the transport in the order
\* the commands were called (ascending serials), also when several commands
\* for the pump are dispatched concurrently from broker messages.
C33_WritesSerialized ==
  /\ Len(ble[1].writes) <= 1
  /\ \A i, j \in 1..Len(ble[1].writes) :
       i < j => FrameSerial(ble[1].writes[i]) < FrameSerial(ble[1].writes[j])

-----------------------------------------------------------------------------
(* Threads: the steps of the sessions, of _handle_command and of the        *)
(* periodic publisher are run by the asyncio event loop; _on_mqtt_connect    *)
(* is a callback of the broker client and is run by the network thread that *)
(* mqtt_client.loop_start() starts                                          *)

Thread(op) == IF op = "mqtt_connect" THEN "broker" ELSE "loop"

\* C34: no field of a pump's state is written by a step that runs outside
\* the event loop the session is bound to (a broker callback or the BLE
\* disconnect callback, not marshalled onto the loop).
C34_StateWrittenOnScheduler ==
  [][\A p \in Pumps :
       s'[p].state # s[p].state => Thread(out'.op) = "loop"]_vars

-----------------------------------------------------------------------------
(* Claims about the state-change events, checked under Spec *)

\* C35: every step that changes link_up of a session (login success, the
\* disconnect hook, the cleanup after a failed connect, disconnect()) calls
\* the state callback, and with the broker connected it publishes the
\* connected/state of the new value.
C35_LinkChangeEmitted ==
  [][\A p \in Pumps :
       s'[p].state.connected # s[p].state.connected =>
         /\ out'.events >= 1
         /\ bridge.mqtt_connected =>
              <<p, "connected/state", OnOff(s'[p].state.connected)>> \in out'.pub]_vars

-----------------------------------------------------------------------------
(* Claims about the runtime across a reconnect, checked under SpecRuntime *)

\* the step handles the first power-on notification of pump p after the
\* session lost its link with power true and was authenticated again
PowerConfirmedAfterReconnect(p) ==
  /\ out'.op = "notification"
  /\ out'.pump = p
  /\ out'.arg = ControlNotification(ATTR_POWER, 1)
  /\ s[p].authenticated
  /\ s[p].state.power
  /\ ~s[p].state.state_initialized

\* C36: after a link loss with power true and the re-authentication, the
\* first notification that confirms power true sets power_on_time to the
\* time of that notification, so that the time the link was down is not
\* counted in the runtime.
C36_EpochRenewedAfterReconnect ==
  [][PowerConfirmedAfterReconnect(1) => s'[1].state.power_on_time = clock.now]_vars

----------------------------------------------------------------------------
(* The layout of the control frames, checked under SpecCmd *)

\* the attribute a command addresses
AttrOf(op) ==
  CASE op = "set_power" -> ATTR_POWER
    [] op = "set_feed" -> ATTR_FEED
    [] op = "set_flow" -> ATTR_FLOW
    [] op = "set_frequency" -> ATTR_FREQUENCY
    [] op \in {"set_mode", "set_mode_by_name"} -> ATTR_MODE

\* the frame has the layout of a control frame that addresses attr
ControlLayout(frame, attr) ==
  /\ Len(frame) = 23
  /\ SubSeq(frame, 1, 4) = <<0, 0, 0, 3>>
  /\ frame[5] = 18
  /\ frame[6] = 0
  /\ SubSeq(frame, 7, 8) = <<0, 147>>
  /\ \A i \in 9..12 : frame[i] \in 0..255
  /\ frame[13] = 17
  /\ \A i \in 14..19 : frame[i] = 0
  /\ SubSeq(frame, 20, 22) = attr
  /\ frame[23] \in 0..255

Attributes == {ATTR_POWER, ATTR_FEED, ATTR_MODE, ATTR_FLOW, ATTR_FREQUENCY}

\* C37: every control frame a session writes is 23 bytes: the 8-byte header
\* with length byte 18 and command 0x0093, the serial in 4 bytes, most
\* significant first, and an 11-byte P0 with 0x11 at byte 0, zeros at bytes
\* 1..6, the attribute triple of the command's attribute at bytes 7..9 and the
\* value at byte 10
C37_ControlFrameLayout ==
  /\ (out.op \in CommandOps /\ out.frame # <<>>) =>
        /\ ControlLayout(out.frame, AttrOf(out.op))
        /\ SubSeq(out.frame, 9, 12) = <<0, 0, 0, ble[out.pump].last>>
  /\ \A p \in Pumps : \A i \in 1..Len(ble[p].writes) :
        \E attr \in Attributes : ControlLayout(ble[p].writes[i], attr)

C37_Witness ==
  /\ out.op = "set_flow"
  /\ out.arg = 65
  /\ out.frame = <<0, 0, 0, 3, 18, 0, 0, 147, 0, 0, 0, 2,
                   17, 0, 0, 0, 0, 0, 0, 0, 128, 0, 65>>

====
